---- MODULE Spec2Model ----
(***************************************************************************)
(* Branch resolution and command dispatch of keboola-cli-mcp-server.       *)
(*                                                                         *)
(* The state is what the server reads on every tool call: the project      *)
(* manifest (.keboola/manifest.json), the git working tree, the mapping    *)
(* file (branch-mapping.json), the ambient process environment and the     *)
(* configured default branch; plus the last tool call and what it          *)
(* returned; and, for the mapping store's writes, the name of the mapping  *)
(* file, whether its directory exists, and the temporary file beside it.   *)
(* Texts are sequences of one-character strings, so that                   *)
(* strip(), lower(), split(), replace() and startswith() are computed.     *)
(***************************************************************************)
EXTENDS Integers, Sequences, FiniteSets, TLC

VARIABLES defaultBranch, manifest, git, mappingFile, ambient, op, res,
          mappingPath, parentDir, tempFile

vars ==
  <<defaultBranch, manifest, git, mappingFile, ambient, op, res,
    mappingPath, parentDir, tempFile>>

envVars ==
  <<defaultBranch, manifest, git, mappingFile, ambient, mappingPath, parentDir, tempFile>>

(***************************************************************************)
(* Bounds of the model.                                                    *)
(***************************************************************************)
\* number of distinct workspace ids in mapping files
MaxIds == 2
\* largest exit code of the external tool
MaxExitCode == 1
\* number of whitespace characters put in front of a candidate command
MaxPad == 1
\* number of entries of a structured-arguments mapping
MaxArgs == 2
\* number of elements of a list-valued argument
MaxListLen == 2
\* number of distinct workspace ids in the mapping files the store is run on
MaxStoreIds == 1

(***************************************************************************)
(* Python values and text.                                                 *)
(***************************************************************************)
\* Python's None / JSON null, as stored in a mapping and returned by calls
None == "None"

\* characters str.strip() and str.split() treat as whitespace
Whitespace == {" ", "\t", "\n"}

Lowers == <<"a", "b", "c", "d", "e", "f", "g", "h", "i", "j", "k", "l", "m", "n", "o", "p", "q", "r", "s", "t", "u", "v", "w", "x", "y", "z">>

Uppers == <<"A", "B", "C", "D", "E", "F", "G", "H", "I", "J", "K", "L", "M", "N", "O", "P", "Q", "R", "S", "T", "U", "V", "W", "X", "Y", "Z">>

Digits == <<"0", "1", "2", "3", "4", "5", "6", "7", "8", "9">>

\* str.lower() on one character
LowerChar(c) ==
  IF \E i \in 1..Len(Uppers) : Uppers[i] = c
  THEN Lowers[CHOOSE i \in 1..Len(Uppers) : Uppers[i] = c]
  ELSE c

\* str.upper() on one character
UpperChar(c) ==
  IF \E i \in 1..Len(Lowers) : Lowers[i] = c
  THEN Uppers[CHOOSE i \in 1..Len(Lowers) : Lowers[i] = c]
  ELSE c

\* str.lower()
Lower(s) == [i \in 1..Len(s) |-> LowerChar(s[i])]

\* str.upper()
Upper(s) == [i \in 1..Len(s) |-> UpperChar(s[i])]

RECURSIVE LStrip(_)
LStrip(s) == IF s # <<>> /\ Head(s) \in Whitespace THEN LStrip(Tail(s)) ELSE s

RECURSIVE RStrip(_)
RStrip(s) ==
  IF s # <<>> /\ s[Len(s)] \in Whitespace THEN RStrip(SubSeq(s, 1, Len(s) - 1)) ELSE s

\* str.strip()
Strip(s) == RStrip(LStrip(s))

\* str.startswith()
StartsWith(s, p) == Len(s) >= Len(p) /\ SubSeq(s, 1, Len(p)) = p

\* str.replace(a, b) for one-character a and b
Replace(s, a, b) == [i \in 1..Len(s) |-> IF s[i] = a THEN b ELSE s[i]]

RECURSIVE SplitFrom(_, _, _)
SplitFrom(s, cur, acc) ==
  IF s = <<>> THEN (IF cur = <<>> THEN acc ELSE Append(acc, cur))
  ELSE IF Head(s) \in Whitespace
       THEN SplitFrom(Tail(s), <<>>, IF cur = <<>> THEN acc ELSE Append(acc, cur))
       ELSE SplitFrom(Tail(s), Append(cur, Head(s)), acc)

\* str.split() with no separator: the maximal runs of non-whitespace
Split(s) == SplitFrom(s, <<>>, <<>>)

RECURSIVE Join(_, _)
\* sep.join(parts)
Join(parts, sep) ==
  IF parts = <<>> THEN <<>>
  ELSE IF Len(parts) = 1 THEN parts[1]
       ELSE parts[1] \o sep \o Join(Tail(parts), sep)

RECURSIVE NatStr(_)
NatStr(n) ==
  IF n < 10 THEN <<Digits[n + 1]>> ELSE NatStr(n \div 10) \o <<Digits[(n % 10) + 1]>>

\* str(value) of an argument value: [t |-> type tag, v |-> payload]
PyStr(val) ==
  CASE val.t = "str" -> val.v
    [] val.t = "int" -> IF val.v < 0 THEN <<"-">> \o NatStr(0 - val.v) ELSE NatStr(val.v)
    [] val.t = "bool" -> IF val.v THEN <<"T", "r", "u", "e">> ELSE <<"F", "a", "l", "s", "e">>
    [] OTHER -> <<"N", "o", "n", "e">>

(***************************************************************************)
(* tools/cli_proxy.py: the allow-list and the two pure functions.          *)
(***************************************************************************)
ALLOWED_COMMANDS ==
  << <<"s", "y", "n", "c", " ", "p", "u", "s", "h">>,
     <<"s", "y", "n", "c", " ", "p", "u", "l", "l">>,
     <<"s", "y", "n", "c", " ", "d", "i", "f", "f">>,
     <<"s", "y", "n", "c", " ", "i", "n", "i", "t">>,
     <<"r", "e", "m", "o", "t", "e", " ", "j", "o", "b", " ", "r", "u", "n">>,
     <<"r", "e", "m", "o", "t", "e", " ", "t", "a", "b", "l", "e", " ", "p", "r", "e", "v", "i", "e", "w">>,
     <<"r", "e", "m", "o", "t", "e", " ", "t", "a", "b", "l", "e", " ", "d", "o", "w", "n", "l", "o", "a", "d">>,
     <<"r", "e", "m", "o", "t", "e", " ", "t", "a", "b", "l", "e", " ", "u", "p", "l", "o", "a", "d">>,
     <<"r", "e", "m", "o", "t", "e", " ", "c", "r", "e", "a", "t", "e", " ", "b", "u", "c", "k", "e", "t">>,
     <<"r", "e", "m", "o", "t", "e", " ", "c", "r", "e", "a", "t", "e", " ", "b", "r", "a", "n", "c", "h">>,
     <<"r", "e", "m", "o", "t", "e", " ", "l", "i", "s", "t", " ", "b", "r", "a", "n", "c", "h", "e", "s">>,
     <<"l", "o", "c", "a", "l", " ", "v", "a", "l", "i", "d", "a", "t", "e">>,
     <<"l", "o", "c", "a", "l", " ", "c", "r", "e", "a", "t", "e", " ", "c", "o", "n", "f", "i", "g">>,
     <<"l", "o", "c", "a", "l", " ", "e", "n", "c", "r", "y", "p", "t">>,
     <<"s", "t", "a", "t", "u", "s">> >>

\* a validate_command that forgets the space after the prefix
ValidateNoSpace(command) ==
  LET c == Lower(Strip(command))
  IN \E i \in 1..Len(ALLOWED_COMMANDS) : StartsWith(c, ALLOWED_COMMANDS[i])

\* _validate_command(command)
_validate_command(command) ==
  LET c == Lower(Strip(command))
  IN \E i \in 1..Len(ALLOWED_COMMANDS) :
        c = ALLOWED_COMMANDS[i] \/ StartsWith(c, ALLOWED_COMMANDS[i] \o <<" ">>)

\* a loop body that emits the flag for every boolean, true or false
FlagTokensAnyBool(key, value) ==
  LET flag == <<"-", "-">> \o Replace(key, "_", "-")
  IN CASE value.t = "bool" -> <<flag>>
       [] value.t = "list" ->
            LET RECURSIVE each(_)
                each(items) ==
                  IF items = <<>> THEN <<>>
                  ELSE <<flag, PyStr(Head(items))>> \o each(Tail(items))
            IN each(value.v)
       [] OTHER -> <<flag, PyStr(value)>>

\* one iteration of the loop of _convert_args_to_cli_flags: the tokens of one item
FlagTokens(key, value) ==
  LET flag == <<"-", "-">> \o Replace(key, "_", "-")
  IN CASE value.t = "bool" -> IF value.v THEN <<flag>> ELSE <<>>
       [] value.t = "list" ->
            LET RECURSIVE each(_)
                each(items) ==
                  IF items = <<>> THEN <<>>
                  ELSE <<flag, PyStr(Head(items))>> \o each(Tail(items))
            IN each(value.v)
       [] OTHER -> <<flag, PyStr(value)>>

RECURSIVE FlagsLoop(_, _)
FlagsLoop(items, flags) ==
  IF items = <<>> THEN flags
  ELSE FlagsLoop(Tail(items), flags \o FlagTokens(Head(items).key, Head(items).value))

\* _convert_args_to_cli_flags(args); args is None or an insertion-ordered dict,
\* [isNone |-> BOOLEAN, items |-> sequence of [key, value]]
_convert_args_to_cli_flags(args) ==
  IF args.isNone \/ args.items = <<>> THEN <<>> ELSE FlagsLoop(args.items, <<>>)

(***************************************************************************)
(* The environment the server reads: files, git, process environment.      *)
(***************************************************************************)
Branches == {"main", "master", "develop", "feature/x"}

\* branches the working tree can be on, and branches a mapping file can name
LocalBranches == {"main", "develop", "feature/x"}

Ids == {ToString(100 + i) : i \in 1..MaxIds}

KBC_BRANCH_ID == "KBC_BRANCH_ID"

\* os.environ without and with an inherited override value
AmbientEnvs ==
  { ("PATH" :> "/usr/bin"),
    ("PATH" :> "/usr/bin") @@ (KBC_BRANCH_ID :> "999") }

EmptyDict == [b \in {} |-> None]

\* .keboola/manifest.json: absent, not JSON, JSON that is no object, or an object
\* whose allowTargetEnv is missing, false, true, or another truthy / falsy value
Manifests ==
  { [kind |-> k, flag |-> "missing"] : k \in {"absent", "unparsable", "nonobject"} }
    \cup { [kind |-> "object", flag |-> f] :
             f \in {"missing", "false", "true", "truthy", "falsy"} }

\* git branch --show-current: the tool missing, a non-zero exit, or exit 0 with
\* the branch name on stdout (empty on a detached head)
GitStates ==
  { [exit |-> "notfound", stdout |-> ""], [exit |-> "nonzero", stdout |-> ""] }
    \cup { [exit |-> "zero", stdout |-> b] : b \in LocalBranches \cup {""} }

\* branch-mapping.json: absent, not JSON, a JSON list, or a JSON object
MappingFiles ==
  { [kind |-> k, items |-> {}, map |-> EmptyDict] : k \in {"absent", "corrupt"} }
    \cup { [kind |-> "list", items |-> s, map |-> EmptyDict] : s \in SUBSET {"feature/x"} }
    \cup { [kind |-> "dict", items |-> {}, map |-> m] :
             m \in UNION { [s -> Ids \cup {None}] : s \in SUBSET LocalBranches } }

\* a path with no file at it
NoFile == [kind |-> "absent", items |-> {}, map |-> EmptyDict]

\* KBC_MAPPING_FILE, by default and as another name an operator may give it
DefaultMappingFile ==
  <<"b", "r", "a", "n", "c", "h", "-", "m", "a", "p", "p", "i", "n", "g", ".", "j", "s", "o", "n">>

MappingPaths ==
  { DefaultMappingFile, <<"m", "a", "p", ".", "t", "m", "p">> }

\* the environment as one value: what every call reads
Env ==
  [defaultBranch |-> defaultBranch, manifest |-> manifest, git |-> git,
   mappingFile |-> mappingFile, ambient |-> ambient]

\* what a call returns or raises, with the reads it made in order
Outcome(exc, code, val, available, trace) ==
  [exc |-> exc, code |-> code, val |-> val, available |-> available, trace |-> trace]

Returned(val, trace) == Outcome("none", "", val, {}, trace)

Raised(exc, code, trace) == Outcome(exc, code, None, {}, trace)

(***************************************************************************)
(* services/branch_mapping.py: BranchMappingService (read side).           *)
(***************************************************************************)
\* load_mappings(): the Python value json.loads gives, {} when the file is
\* absent or is not JSON (as a text cut short by an interrupted write is not)
load_mappings(file) ==
  IF file.kind \in {"absent", "corrupt", "partial"}
  THEN [type |-> "dict", items |-> {}, map |-> EmptyDict]
  ELSE [type |-> file.kind, items |-> file.items, map |-> file.map]

\* has_mapping(git_branch): git_branch in load_mappings()
has_mapping(file, git_branch) ==
  LET mappings == load_mappings(file)
  IN IF mappings.type = "dict" THEN git_branch \in DOMAIN mappings.map
     ELSE git_branch \in mappings.items

\* get_mapping(git_branch): load_mappings().get(git_branch)
get_mapping(file, git_branch) ==
  LET mappings == load_mappings(file)
  IN IF mappings.type # "dict" THEN Raised("AttributeError", "", <<"mapping">>)
     ELSE IF git_branch \in DOMAIN mappings.map
          THEN Returned(mappings.map[git_branch], <<"mapping">>)
          ELSE Returned(None, <<"mapping">>)

\* list(load_mappings().keys())
mapping_keys(file) ==
  LET mappings == load_mappings(file)
  IN IF mappings.type # "dict" THEN Raised("AttributeError", "", <<"mapping">>)
     ELSE Outcome("none", "", None, DOMAIN mappings.map, <<"mapping">>)

(***************************************************************************)
(* services/git.py: GitService.get_current_branch.                         *)
(***************************************************************************)
\* a git service that answers with the branch it saw when the server started
CurrentBranchAtStartup(g) == Returned("main", <<"git">>)

get_current_branch(g) ==
  IF g.exit = "notfound" THEN Raised("FileNotFoundError", "", <<"git">>)
  ELSE IF g.exit = "nonzero" THEN Raised("GitError", "GIT_FAILED", <<"git">>)
  ELSE IF g.stdout = "" THEN Raised("GitError", "DETACHED_HEAD", <<"git">>)
  ELSE Returned(g.stdout, <<"git">>)

(***************************************************************************)
(* services/branch_resolver.py: BranchResolver.                            *)
(***************************************************************************)
\* truthiness of manifest.get("allowTargetEnv", False)
AllowTargetEnv(m) == m.flag \in {"true", "truthy"}

validate_project_initialization(m) ==
  IF m.kind = "absent"
  THEN Raised("ProjectNotInitializedError", "PROJECT_NOT_INITIALIZED", <<"manifest">>)
  ELSE IF m.kind = "unparsable"
  THEN Raised("ProjectNotInitializedError", "PROJECT_INVALID", <<"manifest">>)
  ELSE IF m.kind = "nonobject"
  THEN Raised("AttributeError", "", <<"manifest">>)
  ELSE IF ~AllowTargetEnv(m)
  THEN Raised("ProjectNotInitializedError", "PROJECT_MISCONFIGURED", <<"manifest">>)
  ELSE Returned(None, <<"manifest">>)

is_default_branch(default, git_branch) == git_branch \in {default, "main", "master"}

\* a resolver that looks the branch up before it tests for the default
ResolveLookupFirst(default, file, git_branch) ==
  IF has_mapping(file, git_branch)
  THEN LET got == get_mapping(file, git_branch)
       IN [got EXCEPT !.trace = <<"mapping">> \o got.trace]
  ELSE IF is_default_branch(default, git_branch) THEN Returned(None, <<"mapping">>)
  ELSE LET keys == mapping_keys(file)
       IN IF keys.exc # "none" THEN [keys EXCEPT !.trace = <<"mapping">> \o keys.trace]
          ELSE Outcome("BranchResolutionError", "NO_MAPPING", None, keys.available,
                       <<"mapping">> \o keys.trace)

get_keboola_branch_id(default, file, git_branch) ==
  IF is_default_branch(default, git_branch) THEN Returned(None, <<>>)
  ELSE IF has_mapping(file, git_branch)
  THEN LET got == get_mapping(file, git_branch)
       IN [got EXCEPT !.trace = <<"mapping">> \o got.trace]
  ELSE LET keys == mapping_keys(file)
       IN IF keys.exc # "none" THEN [keys EXCEPT !.trace = <<"mapping">> \o keys.trace]
          ELSE Outcome("BranchResolutionError", "NO_MAPPING", None, keys.available,
                       <<"mapping">> \o keys.trace)

\* an overlay that leaves an inherited override in place on production
OverlayKeepStale(environ, keboola_branch_id) ==
  IF keboola_branch_id # None
  THEN [k \in DOMAIN environ \cup {KBC_BRANCH_ID} |->
          IF k = KBC_BRANCH_ID THEN keboola_branch_id ELSE environ[k]]
  ELSE environ

\* env = os.environ.copy(), then set or delete KBC_BRANCH_ID
Overlay(environ, keboola_branch_id) ==
  IF keboola_branch_id # None
  THEN [k \in DOMAIN environ \cup {KBC_BRANCH_ID} |->
          IF k = KBC_BRANCH_ID THEN keboola_branch_id ELSE environ[k]]
  ELSE [k \in DOMAIN environ \ {KBC_BRANCH_ID} |-> environ[k]]

NoInfo == [git_branch |-> None, keboola_branch_id |-> None, is_production |-> FALSE]

\* what branch_context() yields or raises
Context(exc, code, available, environ, info, trace) ==
  [exc |-> exc, code |-> code, available |-> available, env |-> environ,
   info |-> info, trace |-> trace]

ContextFailed(o, trace) == Context(o.exc, o.code, o.available, <<>>, NoInfo, trace)

\* a branch_context that resolves the branch before it validates the project
BranchContextGuardLast(e) ==
  LET branch == get_current_branch(e.git)
  IN IF branch.exc # "none" THEN ContextFailed(branch, branch.trace)
     ELSE
       LET id == get_keboola_branch_id(e.defaultBranch, e.mappingFile, branch.val)
           guard == validate_project_initialization(e.manifest)
       IN IF id.exc # "none" THEN ContextFailed(id, branch.trace \o id.trace)
          ELSE IF guard.exc # "none"
          THEN ContextFailed(guard, branch.trace \o id.trace \o guard.trace)
          ELSE Context("none", "", {}, Overlay(e.ambient, id.val),
                       [git_branch |-> branch.val, keboola_branch_id |-> id.val,
                        is_production |-> id.val = None],
                       branch.trace \o id.trace \o guard.trace)

branch_context(e) ==
  LET guard == validate_project_initialization(e.manifest)
  IN IF guard.exc # "none" THEN ContextFailed(guard, guard.trace)
     ELSE
       LET branch == get_current_branch(e.git)
       IN IF branch.exc # "none" THEN ContextFailed(branch, guard.trace \o branch.trace)
          ELSE
            LET id == get_keboola_branch_id(e.defaultBranch, e.mappingFile, branch.val)
            IN IF id.exc # "none"
               THEN ContextFailed(id, guard.trace \o branch.trace \o id.trace)
               ELSE Context("none", "", {}, Overlay(e.ambient, id.val),
                            [git_branch |-> branch.val, keboola_branch_id |-> id.val,
                             is_production |-> id.val = None],
                            guard.trace \o branch.trace \o id.trace)

(***************************************************************************)
(* tools/cli_proxy.py: the kbc tool.                                       *)
(***************************************************************************)
\* the hard-coded path of the external tool, abbreviated to its last component
KbcBinary == <<"k", "b", "c">>

Absent == "<absent>"

\* what subprocess.run does: the tool exits with a code and two captured
\* streams, the timeout expires, or the invocation itself fails (binary missing)
ProcOutcomes ==
  { [kind |-> "exit", code |-> c, stdout |-> s[1], stderr |-> s[2]] :
      c \in 0..MaxExitCode, s \in {<<"rows", "">>, <<"", "warn">>} }
    \cup { [kind |-> k, code |-> -1, stdout |-> "", stderr |-> ""] :
             k \in {"timeout", "oserror"} }

NoOutcome == [kind |-> "none", code |-> -1, stdout |-> "", stderr |-> ""]

\* the dict a tool returns: keys names the entries present; raised names an
\* exception that escaped the tool instead of a dict
NoResult ==
  [keys |-> {}, raised |-> "none", error |-> Absent, success |-> FALSE,
   command |-> <<>>, git_branch |-> Absent, keboola_branch_id |-> Absent,
   output |-> Absent, stdout |-> Absent, stderr |-> Absent, exit_code |-> -1,
   message |-> Absent, message_list |-> {}, available_mappings |-> {}]

ToolReturn(result, trace, spawned, contexts) ==
  [result |-> result, trace |-> trace, spawned |-> spawned, contexts |-> contexts]

\* an outcome mapping that reports every exit as a success
KbcResultAnyExit(info, full_command, outcome) ==
  CASE outcome.kind = "exit" ->
         [NoResult EXCEPT
            !.keys = {"success", "command", "git_branch", "keboola_branch_id",
                      "output", "exit_code"},
            !.success = TRUE, !.command = full_command,
            !.git_branch = info.git_branch,
            !.keboola_branch_id = info.keboola_branch_id,
            !.output = outcome.stdout, !.exit_code = outcome.code]
    [] outcome.kind = "timeout" ->
         [NoResult EXCEPT !.keys = {"error", "message"},
            !.error = "TIMEOUT", !.message = "TIMEOUT"]
    [] OTHER ->
         [NoResult EXCEPT !.keys = {"error", "message"},
            !.error = "EXECUTION_ERROR", !.message = "OSError"]

\* the dict kbc returns for what subprocess.run did
KbcResult(info, full_command, outcome) ==
  CASE outcome.kind = "exit" /\ outcome.code = 0 ->
         [NoResult EXCEPT
            !.keys = {"success", "command", "git_branch", "keboola_branch_id",
                      "output", "exit_code"},
            !.success = TRUE, !.command = full_command,
            !.git_branch = info.git_branch,
            !.keboola_branch_id = info.keboola_branch_id,
            !.output = outcome.stdout, !.exit_code = outcome.code]
    [] outcome.kind = "exit" /\ outcome.code # 0 ->
         [NoResult EXCEPT
            !.keys = {"error", "command", "exit_code", "stdout", "stderr",
                      "git_branch", "keboola_branch_id"},
            !.error = "CLI_ERROR", !.command = full_command,
            !.exit_code = outcome.code, !.stdout = outcome.stdout,
            !.stderr = outcome.stderr,
            !.git_branch = info.git_branch,
            !.keboola_branch_id = info.keboola_branch_id]
    [] outcome.kind = "timeout" ->
         [NoResult EXCEPT !.keys = {"error", "message"},
            !.error = "TIMEOUT", !.message = "TIMEOUT"]
    [] OTHER ->
         [NoResult EXCEPT !.keys = {"error", "message"},
            !.error = "EXECUTION_ERROR", !.message = "OSError"]

\* the body of the async with: build the command, run it, map the outcome
KbcRun(ctx, command, args, outcome) ==
  LET cmd_parts == (<<KbcBinary>> \o Split(command)) \o _convert_args_to_cli_flags(args)
      full_command == Join(cmd_parts, <<" ">>)
      spawn == [argv |-> cmd_parts, env |-> ctx.env, timeout |-> 300]
  IN ToolReturn(KbcResult(ctx.info, full_command, outcome),
                ctx.trace \o <<"spawn">>, <<spawn>>, <<ctx>>)

\* the except clauses: a failure of branch_context()
KbcContextFailed(e, ctx) ==
  IF ctx.exc = "ProjectNotInitializedError"
  THEN ToolReturn([NoResult EXCEPT !.keys = {"error", "message", "fix"},
                     !.error = "PROJECT_NOT_INITIALIZED", !.message = ctx.code],
                  ctx.trace, <<>>, <<ctx>>)
  ELSE IF ctx.exc = "BranchResolutionError"
  THEN LET keys == mapping_keys(e.mappingFile)
           branch == get_current_branch(e.git)
       IN IF keys.exc # "none"
          THEN ToolReturn([NoResult EXCEPT !.raised = keys.exc],
                          ctx.trace \o keys.trace, <<>>, <<ctx>>)
          ELSE ToolReturn([NoResult EXCEPT
                             !.keys = {"error", "message", "git_branch",
                                       "available_mappings"},
                             !.error = "NO_MAPPING", !.message = ctx.code,
                             !.message_list = ctx.available,
                             !.git_branch =
                                IF branch.exc = "none" THEN branch.val ELSE "unknown",
                             !.available_mappings = keys.available],
                          (ctx.trace \o keys.trace) \o branch.trace, <<>>, <<ctx>>)
  ELSE ToolReturn([NoResult EXCEPT !.keys = {"error", "message"},
                     !.error = "EXECUTION_ERROR", !.message = ctx.exc],
                  ctx.trace, <<>>, <<ctx>>)

InvalidCommand ==
  ToolReturn([NoResult EXCEPT !.keys = {"error", "message"},
                !.error = "INVALID_COMMAND", !.message = "INVALID_COMMAND"],
             <<>>, <<>>, <<>>)

\* a kbc tool that acquires the branch context before it validates the command
KbcContextFirst(e, command, args, outcome) ==
  LET ctx == branch_context(e)
  IN IF ctx.exc # "none" THEN KbcContextFailed(e, ctx)
     ELSE IF ~_validate_command(command)
          THEN [InvalidCommand EXCEPT !.trace = ctx.trace, !.contexts = <<ctx>>]
          ELSE KbcRun(ctx, command, args, outcome)

\* kbc(command, args), with the outcome of the subprocess it may start
kbc(e, command, args, outcome) ==
  IF ~_validate_command(command) THEN InvalidCommand
  ELSE LET ctx == branch_context(e)
       IN IF ctx.exc = "none" THEN KbcRun(ctx, command, args, outcome)
          ELSE KbcContextFailed(e, ctx)

(***************************************************************************)
(* Inputs of the calls.                                                    *)
(***************************************************************************)
NoArgs == [isNone |-> TRUE, items |-> <<>>]

Dict(items) == [isNone |-> FALSE, items |-> items]

PyBool(b) == [t |-> "bool", v |-> b]

PyString(s) == [t |-> "str", v |-> s]

PyInt(n) == [t |-> "int", v |-> n]

PyList(items) == [t |-> "list", v |-> items]

\* commands given to the kbc tool: two the allow-list accepts, two it rejects
KbcCommands ==
  { <<"s", "y", "n", "c", " ", "p", "u", "s", "h">>,
    <<" ", "S", "T", "A", "T", "U", "S", " ", "-", "v">>,
    <<"s", "y", "n", "c">>,
    <<"s", "t", "a", "t", "u", "s", ";", "r", "m">> }

KbcArgs ==
  { NoArgs, Dict(<< [key |-> <<"d", "r", "y", "_", "r", "u", "n">>, value |-> PyBool(TRUE)] >>) }

\* names given to is_default_branch and get_keboola_branch_id
BranchNames == Branches \cup {"Main"}

Idle == [name |-> "idle"]

(***************************************************************************)
(* The server: one action per call, and the changes made around it.        *)
(***************************************************************************)
Init ==
  /\ defaultBranch \in {"main", "develop"}
  /\ manifest \in Manifests
  /\ git \in GitStates
  /\ mappingFile \in MappingFiles
  /\ ambient \in AmbientEnvs
  /\ op = Idle
  /\ res = Idle
  /\ mappingPath = DefaultMappingFile
  /\ parentDir = TRUE
  /\ tempFile = NoFile

\* whether kbc gets as far as subprocess.run
Spawns(e, command) == _validate_command(command) /\ branch_context(e).exc = "none"

\* the kbc tool is called
Kbc ==
  /\ op = Idle
  /\ \E command \in KbcCommands, args \in KbcArgs :
       \E outcome \in IF Spawns(Env, command) THEN ProcOutcomes ELSE {NoOutcome} :
         /\ op' = [name |-> "kbc", command |-> command, args |-> args,
                   outcome |-> outcome]
         /\ res' = kbc(Env, command, args, outcome)
  /\ UNCHANGED envVars

\* resolver.branch_context() is entered
BranchContext ==
  /\ op = Idle
  /\ op' = [name |-> "branch_context"]
  /\ res' = branch_context(Env)
  /\ UNCHANGED envVars

\* resolver.get_keboola_branch_id(git_branch)
GetKeboolaBranchId ==
  /\ op = Idle
  /\ \E b \in BranchNames :
       /\ op' = [name |-> "get_keboola_branch_id", branch |-> b]
       /\ res' = get_keboola_branch_id(defaultBranch, mappingFile, b)
  /\ UNCHANGED envVars

\* resolver.is_default_branch(git_branch)
IsDefaultBranch ==
  /\ op = Idle
  /\ \E b \in BranchNames :
       /\ op' = [name |-> "is_default_branch", branch |-> b]
       /\ res' = [ret |-> is_default_branch(defaultBranch, b)]
  /\ UNCHANGED envVars

\* resolver.validate_project_initialization()
ValidateProject ==
  /\ op = Idle
  /\ op' = [name |-> "validate_project_initialization"]
  /\ res' = validate_project_initialization(manifest)
  /\ UNCHANGED envVars

\* the call has returned to its caller
Return ==
  /\ op # Idle
  /\ op' = Idle
  /\ res' = Idle
  /\ UNCHANGED envVars

\* the developer checks out another branch, or git changes state
SwitchBranch ==
  /\ op = Idle
  /\ git' \in GitStates \ {git}
  /\ UNCHANGED <<defaultBranch, manifest, mappingFile, ambient, op, res,
               mappingPath, parentDir, tempFile>>

\* the manifest is rewritten (kbc sync init, or by hand)
EditManifest ==
  /\ op = Idle
  /\ manifest' \in Manifests \ {manifest}
  /\ UNCHANGED <<defaultBranch, git, mappingFile, ambient, op, res,
               mappingPath, parentDir, tempFile>>

\* the mapping file is edited from outside the server: one entry is set or
\* deleted, or the file is removed or replaced by other content
EditMappingFile ==
  /\ op = Idle
  /\ \/ /\ mappingFile.kind = "dict"
        /\ \E b \in LocalBranches, v \in Ids \cup {None} :
             mappingFile' =
               [mappingFile EXCEPT !.map =
                  [k \in DOMAIN mappingFile.map \cup {b} |->
                     IF k = b THEN v ELSE mappingFile.map[k]]]
     \/ /\ mappingFile.kind = "dict"
        /\ \E b \in DOMAIN mappingFile.map :
             mappingFile' =
               [mappingFile EXCEPT !.map =
                  [k \in DOMAIN mappingFile.map \ {b} |-> mappingFile.map[k]]]
     \/ /\ mappingFile' \in { f \in MappingFiles : f.kind # "dict" \/ f.map = EmptyDict }
        /\ mappingFile' # mappingFile
  /\ UNCHANGED <<defaultBranch, manifest, git, ambient, op, res,
               mappingPath, parentDir, tempFile>>

Next ==
  \/ Kbc
  \/ BranchContext
  \/ GetKeboolaBranchId
  \/ IsDefaultBranch
  \/ ValidateProject
  \/ Return
  \/ SwitchBranch
  \/ EditManifest
  \/ EditMappingFile

Spec == Init /\ [][Next]_vars

(***************************************************************************)
(* Properties of branch resolution and of the kbc tool, under Spec.        *)
(***************************************************************************)
\* the three names that always mean production
DefaultNames == {defaultBranch, "main", "master"}

\* the mapping the store holds: the entries of the file when it is a JSON
\* object, no entries otherwise
StoredMapping == IF mappingFile.kind = "dict" THEN mappingFile.map ELSE EmptyDict

\* manifests the guard is to reject, with the error each is to give
GuardError ==
  IF manifest.kind = "absent" THEN "PROJECT_NOT_INITIALIZED"
  ELSE IF manifest.kind = "unparsable" THEN "PROJECT_INVALID"
  ELSE IF manifest.kind = "object" /\ manifest.flag \in {"missing", "false", "falsy"}
       THEN "PROJECT_MISCONFIGURED"
  ELSE "none"

\* C1: whenever branch_context() succeeds, the overlay holds KBC_BRANCH_ID equal
\* to the resolved workspace id when that id is not null and does not hold
\* KBC_BRANCH_ID when it is null, whatever the ambient environment holds; the
\* resolved id is the one stored for the current branch (null on a default
\* branch) and every other ambient variable is passed on unchanged.
C1_OverlayCarriesResolvedId ==
  (op.name = "branch_context" /\ res.exc = "none") =>
    LET id == res.info.keboola_branch_id
    IN /\ res.info.git_branch = git.stdout
       /\ id = IF git.stdout \in DefaultNames THEN None ELSE StoredMapping[git.stdout]
       /\ id # None => (KBC_BRANCH_ID \in DOMAIN res.env /\ res.env[KBC_BRANCH_ID] = id)
       /\ id = None => KBC_BRANCH_ID \notin DOMAIN res.env
       /\ \A k \in DOMAIN ambient \ {KBC_BRANCH_ID} :
            k \in DOMAIN res.env /\ res.env[k] = ambient[k]

\* branch_context() succeeded on production with an override inherited
C1_Witness ==
  /\ op.name = "branch_context"
  /\ res.exc = "none"
  /\ KBC_BRANCH_ID \in DOMAIN ambient
  /\ res.info.keboola_branch_id = None

\* C2: is_default_branch(name) is true exactly for the configured default,
\* "main" and "master", and get_keboola_branch_id of such a name returns null
\* without reading the mapping file, whatever the file holds.
C2_DefaultIsProduction ==
  /\ op.name = "is_default_branch" =>
       (res.ret <=>
          (op.branch = defaultBranch \/ op.branch = "main" \/ op.branch = "master"))
  /\ (op.name = "get_keboola_branch_id" /\ op.branch \in DefaultNames) =>
       (res.exc = "none" /\ res.val = None /\ res.trace = <<>>)

\* a default branch, not the configured one, resolved while the file maps it
\* to a workspace
C2_Witness ==
  /\ op.name = "get_keboola_branch_id"
  /\ op.branch = "main"
  /\ defaultBranch # "main"
  /\ "main" \in DOMAIN StoredMapping
  /\ StoredMapping["main"] # None
  /\ res.val = None

\* C3: get_keboola_branch_id of a non-default branch with no entry in the
\* mapping store fails with BranchResolutionError (BranchUnmapped), and the
\* list attached to the failure is the key set of the store, without the
\* branch itself.
C3_UnmappedFailsWithKeyList ==
  (/\ op.name = "get_keboola_branch_id"
   /\ op.branch \notin DefaultNames
   /\ op.branch \notin DOMAIN StoredMapping) =>
    /\ res.exc = "BranchResolutionError"
    /\ res.available = DOMAIN StoredMapping
    /\ op.branch \notin res.available

\* C4: branch_context() validates the project, then asks git, then reads the
\* mapping file, and stops at the first failure: with a manifest that is
\* missing, unparsable or without a true allowTargetEnv it raises the guard's
\* error having read the manifest only, and when git fails it has not read the
\* mapping file.
C4_GuardThenGitThenMapping ==
  op.name = "branch_context" =>
    LET t == res.trace
        guard == validate_project_initialization(manifest)
        branch == get_current_branch(git)
    IN /\ t # <<>> /\ t[1] = "manifest"
       /\ \A i \in 1..Len(t) :
            /\ t[i] = "manifest" => i = 1
            /\ t[i] = "git" => (i = 2 /\ guard.exc = "none")
            /\ t[i] = "mapping" => (i >= 3 /\ t[2] = "git" /\ branch.exc = "none")
       /\ GuardError # "none" =>
            /\ res.exc = "ProjectNotInitializedError"
            /\ res.code = GuardError
            /\ t = <<"manifest">>
       /\ manifest.kind = "nonobject" => (res.exc # "none" /\ t = <<"manifest">>)
       /\ (guard.exc = "none" /\ git.exit # "zero") =>
            (res.exc # "none" /\ t = <<"manifest", "git">>)
       /\ (guard.exc = "none" /\ git.exit = "zero" /\ git.stdout = "") =>
            (res.exc = "GitError" /\ t = <<"manifest", "git">>)

\* allowTargetEnv is false while the current branch has a valid mapping
C4_Witness ==
  /\ op.name = "branch_context"
  /\ manifest.kind = "object" /\ manifest.flag = "false"
  /\ git.exit = "zero" /\ git.stdout = "feature/x"
  /\ "feature/x" \in DOMAIN StoredMapping
  /\ StoredMapping["feature/x"] # None
  /\ res.code = "PROJECT_MISCONFIGURED"

\* C5: for every command text _validate_command rejects, kbc returns
\* INVALID_COMMAND having read no manifest, asked git nothing, read no mapping
\* file, acquired no branch context and started no subprocess.
C5_RejectedBeforeBranchState ==
  (op.name = "kbc" /\ ~_validate_command(op.command)) =>
    /\ res.result.error = "INVALID_COMMAND"
    /\ res.result.raised = "none"
    /\ res.trace = <<>>
    /\ res.contexts = <<>>
    /\ res.spawned = <<>>

\* a rejected command in a project where an accepted one would have run
C5_Witness ==
  /\ op.name = "kbc"
  /\ op.command = <<"s", "y", "n", "c">>
  /\ res.result.error = "INVALID_COMMAND"
  /\ branch_context(Env).exc = "none"

\* C8: for an accepted command kbc acquires one branch context; when that
\* succeeds it starts one subprocess with the context's overlay and maps what
\* the subprocess did: exit 0 to a success with stdout and the context's
\* branch and workspace, another exit code to CLI_ERROR with the code, both
\* streams and the context's branch and workspace, a timeout to TIMEOUT, any
\* other invocation error to EXECUTION_ERROR; when it fails no subprocess is
\* started and the result carries no subprocess output.
C8_OutcomeMapping ==
  (op.name = "kbc" /\ _validate_command(op.command)) =>
    /\ Len(res.contexts) = 1
    /\ res.result.raised = "none"
    /\ LET ctx == res.contexts[1]
           r == res.result
           o == op.outcome
       IN IF ctx.exc = "none"
          THEN /\ Len(res.spawned) = 1
               /\ res.spawned[1].env = ctx.env
               /\ ctx.info.git_branch = git.stdout
               /\ ctx.info.keboola_branch_id # None =>
                    res.spawned[1].env[KBC_BRANCH_ID] = ctx.info.keboola_branch_id
               /\ ctx.info.keboola_branch_id = None =>
                    KBC_BRANCH_ID \notin DOMAIN res.spawned[1].env
               /\ (o.kind = "exit" /\ o.code = 0) =>
                    /\ r.success /\ "error" \notin r.keys
                    /\ {"output", "git_branch", "keboola_branch_id"} \subseteq r.keys
                    /\ r.output = o.stdout
                    /\ r.git_branch = ctx.info.git_branch
                    /\ r.keboola_branch_id = ctx.info.keboola_branch_id
               /\ (o.kind = "exit" /\ o.code # 0) =>
                    /\ r.error = "CLI_ERROR" /\ "success" \notin r.keys
                    /\ {"exit_code", "stdout", "stderr", "git_branch",
                        "keboola_branch_id"} \subseteq r.keys
                    /\ r.exit_code = o.code
                    /\ r.stdout = o.stdout /\ r.stderr = o.stderr
                    /\ r.git_branch = ctx.info.git_branch
                    /\ r.keboola_branch_id = ctx.info.keboola_branch_id
               /\ o.kind = "timeout" => r.error = "TIMEOUT"
               /\ o.kind = "oserror" => r.error = "EXECUTION_ERROR"
          ELSE /\ res.spawned = <<>>
               /\ o = NoOutcome
               /\ "error" \in r.keys
               /\ r.keys \cap {"output", "stdout", "stderr", "exit_code"} = {}

\* the external tool exited non-zero on a branch mapped to a workspace
C8_Witness ==
  /\ op.name = "kbc"
  /\ op.outcome.kind = "exit" /\ op.outcome.code # 0 /\ op.outcome.stderr # ""
  /\ res.result.error = "CLI_ERROR"
  /\ res.result.keboola_branch_id \in Ids

\* the kind of a branch_context() failure, as the taxonomy names it
FailureKind(ctx) ==
  IF ctx.exc = "ProjectNotInitializedError"
  THEN (IF ctx.code = "PROJECT_NOT_INITIALIZED" THEN "ProjectUninitialized"
        ELSE IF ctx.code = "PROJECT_INVALID" THEN "ProjectCorrupt"
        ELSE "ProjectMisconfigured")
  ELSE IF ctx.exc = "BranchResolutionError" THEN "BranchUnmapped"
  ELSE IF ctx.exc = "GitError" THEN "GitUnavailable"
  ELSE "other"

\* C9: every failure of branch_context() inside kbc keeps its kind in the
\* result: the tag is not the generic EXECUTION_ERROR, and it is not the tag
\* kbc gives a failure of another kind (with another manifest or git state).
C9_ContextFailuresKeepTheirKind ==
  (/\ op.name = "kbc"
   /\ res.contexts # <<>>
   /\ FailureKind(res.contexts[1]) \in
        {"ProjectUninitialized", "ProjectCorrupt", "ProjectMisconfigured",
         "BranchUnmapped", "GitUnavailable"}) =>
    /\ res.result.error # "EXECUTION_ERROR"
    /\ \A m \in Manifests, g \in GitStates :
         LET other == [Env EXCEPT !.manifest = m, !.git = g]
             kind == FailureKind(branch_context(other))
         IN (kind \notin {"other", FailureKind(res.contexts[1])}
             /\ branch_context(other).exc # "none") =>
              kbc(other, op.command, op.args, NoOutcome).result.error
                # res.result.error

\* C10: validate_project_initialization() returns normally exactly when the
\* manifest exists, parses and has allowTargetEnv true; it raises
\* PROJECT_NOT_INITIALIZED when the manifest is absent, PROJECT_INVALID when it
\* cannot be parsed as a JSON object, PROJECT_MISCONFIGURED when the flag is
\* false or missing, and nothing but ProjectNotInitializedError.
C10_GuardOutcomes ==
  op.name = "validate_project_initialization" =>
    /\ res.exc = "none" <=> (manifest.kind = "object" /\ manifest.flag = "true")
    /\ res.exc \in {"none", "ProjectNotInitializedError"}
    /\ manifest.kind = "absent" => res.code = "PROJECT_NOT_INITIALIZED"
    /\ manifest.kind \in {"unparsable", "nonobject"} => res.code = "PROJECT_INVALID"
    /\ (manifest.kind = "object" /\ manifest.flag \in {"false", "missing"}) =>
         res.code = "PROJECT_MISCONFIGURED"

(***************************************************************************)
(* _validate_command on candidate texts: SpecValidate.                     *)
(***************************************************************************)
RECURSIVE SeqsUpTo(_, _)
\* the sequences over set of length at most n
SeqsUpTo(set, n) ==
  IF n = 0 THEN {<<>>}
  ELSE LET shorter == SeqsUpTo(set, n - 1)
       IN shorter \cup { Append(q, x) : q \in shorter, x \in set }

\* the image of a sequence
Range(q) == { q[i] : i \in 1..Len(q) }

\* texts that are no allow-listed entry: first words of entries, a command not
\* in the list, near misses
OtherBases ==
  { <<"s", "y", "n", "c">>,
    <<"r", "e", "m", "o", "t", "e">>,
    <<"l", "o", "c", "a", "l">>,
    <<"r", "e", "m", "o", "t", "e", " ", "d", "e", "l", "e", "t", "e", " ", "b", "r", "a", "n", "c", "h">>,
    <<"r", "m">>,
    <<"s", "y", "n">>,
    <<"s", "t", "a", "t", "u", "s", "s">>,
    <<"s", "y", "n", "c", " ", "p", "u", "s", "h", "x">> }

\* what follows the base: nothing, a space, an argument, a character that is
\* no space
Tails ==
  { <<>>,
    <<" ">>,
    <<" ", "-", "-", "d", "r", "y", "-", "r", "u", "n">>,
    <<";", "r", "m", " ", "-", "r", "f", " ", "/">>,
    <<"\t">>,
    <<"\t", "x">> }

\* as written, in capitals, and with a capital first letter
Casings(s) ==
  { s, Upper(s), IF s = <<>> THEN s ELSE <<UpperChar(Head(s))>> \o Tail(s) }

CandidateTexts ==
  { (pad \o c) \o tail :
      pad \in SeqsUpTo({" ", "\t"}, MaxPad),
      c \in UNION { Casings(b) : b \in Range(ALLOWED_COMMANDS) \cup OtherBases },
      tail \in Tails }

\* an environment for the calls that read none
InitPure ==
  /\ defaultBranch = "main"
  /\ manifest = [kind |-> "absent", flag |-> "missing"]
  /\ git = [exit |-> "zero", stdout |-> "main"]
  /\ mappingFile = [kind |-> "absent", items |-> {}, map |-> EmptyDict]
  /\ ambient = ("PATH" :> "/usr/bin")
  /\ op = Idle
  /\ res = Idle
  /\ mappingPath = DefaultMappingFile
  /\ parentDir = TRUE
  /\ tempFile = NoFile

\* _validate_command(command) is called
ValidateCommand ==
  /\ op = Idle
  /\ \E command \in CandidateTexts :
       /\ op' = [name |-> "_validate_command", command |-> command]
       /\ res' = [ret |-> _validate_command(command)]
  /\ UNCHANGED envVars

NextValidate ==
  \/ ValidateCommand
  \/ Return

SpecValidate == InitPure /\ [][NextValidate]_vars

\* two characters that differ at most in case
SameLetter(a, b) ==
  \/ a = b
  \/ \E i \in 1..Len(Lowers) : {a, b} = {Lowers[i], Uppers[i]}

\* a text equals an entry up to case
EqualsIgnoringCase(text, entry) ==
  Len(text) = Len(entry) /\ \A i \in 1..Len(entry) : SameLetter(text[i], entry[i])

\* the rule of the claim: an entry, or an entry followed by a space
MatchesAllowList(text) ==
  \E n \in 1..Len(ALLOWED_COMMANDS) :
    LET entry == ALLOWED_COMMANDS[n]
    IN \/ EqualsIgnoringCase(text, entry)
       \/ /\ Len(text) > Len(entry)
          /\ EqualsIgnoringCase(SubSeq(text, 1, Len(entry)), entry)
          /\ text[Len(entry) + 1] = " "

\* the text between its first and its last character that is no whitespace
Trimmed(text) ==
  LET solid == { i \in 1..Len(text) : text[i] \notin Whitespace }
  IN IF solid = {} THEN <<>>
     ELSE SubSeq(text, CHOOSE i \in solid : \A j \in solid : i <= j,
                       CHOOSE i \in solid : \A j \in solid : i >= j)

\* texts the claim names as rejected
NamedRejects ==
  { <<"s", "y", "n", "c">>,
    <<"r", "e", "m", "o", "t", "e">>,
    <<"s", "t", "a", "t", "u", "s", ";", "r", "m", " ", "-", "r", "f", " ", "/">>,
    <<"r", "e", "m", "o", "t", "e", " ", "d", "e", "l", "e", "t", "e", " ", "b", "r", "a", "n", "c", "h">> }

\* C6 as stated: _validate_command(text) accepts text if and only if text,
\* up to case, equals an allow-listed entry or begins with an entry followed
\* by a space.
C6_AcceptsIffEntryOrEntrySpace ==
  op.name = "_validate_command" => (res.ret <=> MatchesAllowList(op.command))

\* C6: _validate_command(text) accepts text if and only if text with its
\* leading and trailing whitespace removed, up to case, equals an allow-listed
\* entry or begins with an entry followed by a space; a bare first word of an
\* entry, an entry followed at once by a character that is no space, and a
\* command not in the list are rejected.
C6_AcceptsIffTrimmedEntryOrEntrySpace ==
  op.name = "_validate_command" =>
    /\ res.ret <=> MatchesAllowList(Trimmed(op.command))
    /\ op.command \in NamedRejects => ~res.ret

\* an entry in capitals after leading whitespace, with an argument: accepted
C6_Witness ==
  /\ op.name = "_validate_command"
  /\ op.command # <<>>
  /\ Head(op.command) \in Whitespace
  /\ op.command # Lower(op.command)
  /\ Len(Split(op.command)) = 3
  /\ res.ret

(***************************************************************************)
(* _convert_args_to_cli_flags on structured arguments: SpecFlags.          *)
(***************************************************************************)
ArgKeys ==
  { <<"d", "r", "y", "_", "r", "u", "n">>,
    <<"c", "o", "l", "u", "m", "n", "s">>,
    <<"o", "u", "t", "p", "u", "t", "_", "j", "s", "o", "n">> }

\* a string, an integer and a JSON null
Scalars == { PyString(<<"i", "d">>), PyInt(10), [t |-> "null", v |-> 0] }

ListElements == { PyString(<<"n", "a", "m", "e">>), PyInt(7) }

ArgValues ==
  { PyBool(TRUE), PyBool(FALSE) } \cup Scalars
    \cup { PyList(q) : q \in SeqsUpTo(ListElements, MaxListLen) }

\* None, or a mapping of at most MaxArgs entries in some insertion order
StructuredArgs ==
  { NoArgs } \cup
  { Dict(items) :
      items \in { q \in SeqsUpTo([key : ArgKeys, value : ArgValues], MaxArgs) :
                    \A i, j \in 1..Len(q) : q[i].key = q[j].key => i = j } }

\* _convert_args_to_cli_flags(args) is called
ConvertArgs ==
  /\ op = Idle
  /\ \E args \in StructuredArgs :
       /\ op' = [name |-> "_convert_args_to_cli_flags", args |-> args]
       /\ res' = [flags |-> _convert_args_to_cli_flags(args)]
  /\ UNCHANGED envVars

NextFlags ==
  \/ ConvertArgs
  \/ Return

SpecFlags == InitPure /\ [][NextFlags]_vars

\* the number of tokens the claim gives one argument
TokenCount(value) ==
  IF value.t = "bool" THEN (IF value.v THEN 1 ELSE 0)
  ELSE IF value.t = "list" THEN 2 * Len(value.v)
  ELSE 2

RECURSIVE TokensBefore(_, _)
\* the number of tokens of the arguments in front of the i-th
TokensBefore(items, i) ==
  IF i <= 1 THEN 0 ELSE TokensBefore(items, i - 1) + TokenCount(items[i - 1].value)

\* token is "--" and then key with every underscore turned into a hyphen
IsFlagFor(token, key) ==
  /\ Len(token) = Len(key) + 2
  /\ token[1] = "-" /\ token[2] = "-"
  /\ \A k \in 1..Len(key) : token[k + 2] = IF key[k] = "_" THEN "-" ELSE key[k]

\* C7: _convert_args_to_cli_flags emits, for each argument in input order,
\* --name for a true boolean, nothing for a false one, the pair (--name,
\* str(element)) for each element of a list in list order, and the pair
\* (--name, str(value)) for any other value, name being the key with
\* underscores turned into hyphens; None and the empty mapping give no token.
C7_FlagsPerArgumentInOrder ==
  op.name = "_convert_args_to_cli_flags" =>
    LET items == op.args.items
        flags == res.flags
    IN /\ Len(flags) = TokensBefore(items, Len(items) + 1)
       /\ (op.args.isNone \/ items = <<>>) => flags = <<>>
       /\ \A i \in 1..Len(items) :
            LET at == TokensBefore(items, i)
                key == items[i].key
                value == items[i].value
            IN IF value.t = "bool" THEN value.v => IsFlagFor(flags[at + 1], key)
               ELSE IF value.t = "list"
               THEN \A j \in 1..Len(value.v) :
                      /\ IsFlagFor(flags[at + 2 * j - 1], key)
                      /\ flags[at + 2 * j] = PyStr(value.v[j])
               ELSE /\ IsFlagFor(flags[at + 1], key)
                    /\ flags[at + 2] = PyStr(value)

\* a false boolean in front of a list of two elements under a key with an
\* underscore
C7_Witness ==
  /\ op.name = "_convert_args_to_cli_flags"
  /\ Len(op.args.items) = 2
  /\ op.args.items[1].value = PyBool(FALSE)
  /\ op.args.items[2].value.t = "list"
  /\ Len(op.args.items[2].value.v) = 2
  /\ "_" \in Range(op.args.items[2].key)
  /\ Len(res.flags) = 4

(***************************************************************************)
(* The text of the mapping file: json.dumps(mappings, indent=2) and        *)
(* json.loads, on mappings from names to a string or None.                 *)
(***************************************************************************)
\* the names that occur as keys and values of a mapping, as the model writes
\* them and as their characters
Names ==
  Branches \cup {"feature-x", "q\"t", "null"}
    \cup {ToString(n) : n \in 101..(100 + MaxIds + MaxStoreIds)}

Text(s) ==
  CASE s = "main" -> <<"m", "a", "i", "n">>
    [] s = "master" -> <<"m", "a", "s", "t", "e", "r">>
    [] s = "develop" -> <<"d", "e", "v", "e", "l", "o", "p">>
    [] s = "feature/x" -> <<"f", "e", "a", "t", "u", "r", "e", "/", "x">>
    [] s = "feature-x" -> <<"f", "e", "a", "t", "u", "r", "e", "-", "x">>
    [] s = "q\"t" -> <<"q", "\"", "t">>
    [] s = "null" -> <<"n", "u", "l", "l">>
    [] OTHER -> NatStr(CHOOSE n \in 101..(100 + MaxIds + MaxStoreIds) : ToString(n) = s)

\* the name a run of characters spells; "?" for one the model has no name for
Untext(q) ==
  IF \E s \in Names : Text(s) = q THEN CHOOSE s \in Names : Text(s) = q ELSE "?"

\* the order in which a mapping's keys are written (dict order; equality of
\* dicts does not depend on it)
KeyOrder ==
  <<"main", "master", "develop", "feature/x", "feature-x", "q\"t", "null">>

\* the string escapes of the JSON encoder for the characters that occur
EscapeChar(c) ==
  IF c = "\"" THEN <<"\\", "\"">>
  ELSE IF c = "\\" THEN <<"\\", "\\">>
  ELSE <<c>>

RECURSIVE Escape(_)
Escape(q) == IF q = <<>> THEN <<>> ELSE EscapeChar(Head(q)) \o Escape(Tail(q))

\* an encoder that writes strings without escaping them
EncodeStringRaw(q) == (<<"\"">> \o q) \o <<"\"">>

EncodeString(q) == (<<"\"">> \o Escape(q)) \o <<"\"">>

EncodeValue(v) == IF v = None THEN <<"n", "u", "l", "l">> ELSE EncodeString(Text(v))

\* the keys of a mapping in the order they are written
KeysOf(m) == SelectSeq(KeyOrder, LAMBDA k : k \in DOMAIN m)

RECURSIVE DumpItems(_, _)
DumpItems(m, keys) ==
  IF keys = <<>> THEN <<>>
  ELSE LET item == (<<"\n", " ", " ">> \o EncodeString(Text(Head(keys))))
                     \o (<<":", " ">> \o EncodeValue(m[Head(keys)]))
       IN IF Len(keys) = 1 THEN item \o <<"\n">>
          ELSE (item \o <<",">>) \o DumpItems(m, Tail(keys))

\* json.dumps(mappings, indent=2)
Dumps(m) ==
  IF DOMAIN m = {} THEN <<"{", "}">>
  ELSE (<<"{">> \o DumpItems(m, KeysOf(m))) \o <<"}">>

JsonWhitespace == {" ", "\n", "\t", "\r"}

RECURSIVE SkipWs(_, _)
\* the first position at or after i that holds no whitespace
SkipWs(t, i) == IF i <= Len(t) /\ t[i] \in JsonWhitespace THEN SkipWs(t, i + 1) ELSE i

ParseFail == [ok |-> FALSE, val |-> None, next |-> 0]

RECURSIVE ScanString(_, _, _)
\* the characters of a string literal from position i, after its opening quote
ScanString(t, i, acc) ==
  IF i > Len(t) THEN ParseFail
  ELSE IF t[i] = "\"" THEN [ok |-> TRUE, val |-> acc, next |-> i + 1]
  ELSE IF t[i] = "\\"
       THEN IF i + 1 <= Len(t) /\ t[i + 1] \in {"\"", "\\", "/"}
            THEN ScanString(t, i + 2, Append(acc, t[i + 1]))
            ELSE ParseFail
  ELSE ScanString(t, i + 1, Append(acc, t[i]))

\* mappings[git_branch] = keboola_branch_id
SetItem(map, git_branch, keboola_branch_id) ==
  [k \in DOMAIN map \cup {git_branch} |->
     IF k = git_branch THEN keboola_branch_id ELSE map[k]]

\* a scanned string literal as a value
StringValue(str) == IF str.ok THEN [str EXCEPT !.val = Untext(str.val)] ELSE ParseFail

\* a value at position i: a string literal or null
ParseValue(t, i) ==
  IF i <= Len(t) /\ t[i] = "\"" THEN StringValue(ScanString(t, i + 1, <<>>))
  ELSE IF i + 3 <= Len(t) /\ SubSeq(t, i, i + 3) = <<"n", "u", "l", "l">>
       THEN [ok |-> TRUE, val |-> None, next |-> i + 4]
  ELSE ParseFail

RECURSIVE ParseMembers(_, _, _)

\* after a member's value: the object ends, or another member follows
MemberNext(t, after, added) ==
  IF after > Len(t) THEN ParseFail
  ELSE IF t[after] = "}" THEN [ok |-> TRUE, val |-> added, next |-> after + 1]
  ELSE IF t[after] = "," THEN ParseMembers(t, SkipWs(t, after + 1), added)
  ELSE ParseFail

\* a member's value is added under its key; a repeated key keeps its last value
MemberAdded(t, k, value, acc) ==
  IF ~value.ok THEN ParseFail
  ELSE MemberNext(t, SkipWs(t, value.next), SetItem(acc, k, value.val))

\* after a member's key: a colon, then its value
MemberValue(t, k, colon, acc) ==
  IF ~(colon <= Len(t) /\ t[colon] = ":") THEN ParseFail
  ELSE MemberAdded(t, k, ParseValue(t, SkipWs(t, colon + 1)), acc)

MemberKey(t, key, acc) ==
  IF ~key.ok THEN ParseFail
  ELSE MemberValue(t, Untext(key.val), SkipWs(t, key.next), acc)

\* the members of an object from position i, added to acc
ParseMembers(t, i, acc) ==
  IF ~(i <= Len(t) /\ t[i] = "\"") THEN ParseFail
  ELSE MemberKey(t, ScanString(t, i + 1, <<>>), acc)

\* the text ends after the object, whitespace aside
LoadsEnd(t, body) ==
  IF body.ok /\ SkipWs(t, body.next) = Len(t) + 1 THEN body ELSE ParseFail

LoadsBody(t, first) ==
  IF first <= Len(t) /\ t[first] = "}"
  THEN LoadsEnd(t, [ok |-> TRUE, val |-> EmptyDict, next |-> first + 1])
  ELSE LoadsEnd(t, ParseMembers(t, first, EmptyDict))

LoadsObject(t, start) ==
  IF ~(start <= Len(t) /\ t[start] = "{") THEN ParseFail
  ELSE LoadsBody(t, SkipWs(t, start + 1))

\* json.loads(text) of a text that is an object of strings and nulls; ok is
\* FALSE for a text that is not JSON
Loads(t) == LoadsObject(t, SkipWs(t, 1))

\* what a read finds in a file that holds a parsed text
FileOfParsed(parsed) ==
  IF parsed.ok THEN [kind |-> "dict", items |-> {}, map |-> parsed.val]
  ELSE [kind |-> "corrupt", items |-> {}, map |-> EmptyDict]

\* the file that holds a text: what a later read of it finds
FileOfText(t) == FileOfParsed(Loads(t))

(***************************************************************************)
(* services/branch_mapping.py: BranchMappingService (write side).          *)
(***************************************************************************)
RECURSIVE LastDot(_, _)
\* the position of the last "." of a file name after its first character, 0
\* when there is none
LastDot(name, i) ==
  IF i <= 1 THEN 0 ELSE IF name[i] = "." THEN i ELSE LastDot(name, i - 1)

\* Path.with_suffix(suffix) on the file name
with_suffix(name, suffix) ==
  LET dot == LastDot(name, Len(name))
  IN (IF dot = 0 THEN name ELSE SubSeq(name, 1, dot - 1)) \o suffix

\* temp_file = self.mapping_file.with_suffix('.tmp')
TempPath(path) == with_suffix(path, <<".", "t", "m", "p">>)

\* the part of the disk a save touches: the name of the mapping file, whether
\* its directory exists, the mapping file and the temporary file; when the
\* two names are equal they are one file, held in dest
Disk(path, dir, dest, temp) == [path |-> path, dir |-> dir, dest |-> dest, temp |-> temp]

TheDisk == Disk(mappingPath, parentDir, mappingFile, tempFile)

\* a file under write: opened, truncated, its text not yet complete
PartialFile == [kind |-> "partial", items |-> {}, map |-> EmptyDict]

\* the content of the file the text is written to
PutTemp(d, file) ==
  IF TempPath(d.path) = d.path THEN [d EXCEPT !.dest = file] ELSE [d EXCEPT !.temp = file]

\* self.mapping_file.parent.mkdir(parents=True, exist_ok=True)
Mkdir(d) == [d EXCEPT !.dir = TRUE]

\* write_text opens the temporary file for writing, which creates or truncates
\* it; it fails when the directory does not exist
WriteOpen(d) == IF d.dir THEN PutTemp(d, PartialFile) ELSE d

\* write_text has written json.dumps(mappings, indent=2) and closed the file
WriteClose(d, mappings) == IF d.dir THEN PutTemp(d, FileOfText(Dumps(mappings))) ELSE d

\* temp_file.rename(self.mapping_file): the destination is replaced in one step
Rename(d) ==
  IF TempPath(d.path) = d.path \/ d.temp.kind = "absent" THEN d
  ELSE [d EXCEPT !.dest = d.temp, !.temp = NoFile]

\* save_mappings(mappings), all of it: exc names the exception it raises
save_mappings(d, mappings) ==
  LET made == Mkdir(d)
  IN IF ~made.dir THEN [exc |-> "FileNotFoundError", disk |-> made]
     ELSE [exc |-> "none", disk |-> Rename(WriteClose(WriteOpen(made), mappings))]

\* the dict without git_branch
DelItem(map, git_branch) == [k \in DOMAIN map \ {git_branch} |-> map[k]]

\* an add_mapping that saves the new entry alone
AddMappingAlone(d, git_branch, keboola_branch_id) ==
  save_mappings(d, SetItem(EmptyDict, git_branch, keboola_branch_id))

\* add_mapping(git_branch, keboola_branch_id): load, set, save
add_mapping(d, git_branch, keboola_branch_id) ==
  LET mappings == load_mappings(d.dest)
  IN IF mappings.type # "dict" THEN [exc |-> "TypeError", disk |-> d]
     ELSE save_mappings(d, SetItem(mappings.map, git_branch, keboola_branch_id))

\* what mappings.pop(git_branch, None) returns
Popped(map, git_branch) == IF git_branch \in DOMAIN map THEN map[git_branch] ELSE None

\* what remove_mapping returns or raises, once the save is done
Removed(saved, val) == [exc |-> saved.exc, val |-> val, disk |-> saved.disk]

\* a remove that saves the empty mapping
RemoveAll(d, git_branch) ==
  LET mappings == load_mappings(d.dest)
  IN IF mappings.type # "dict" THEN [exc |-> "TypeError", val |-> None, disk |-> d]
     ELSE Removed(save_mappings(d, EmptyDict), Popped(mappings.map, git_branch))

\* remove_mapping(git_branch): load, mappings.pop(git_branch, None), save
remove_mapping(d, git_branch) ==
  LET mappings == load_mappings(d.dest)
  IN IF mappings.type # "dict" THEN [exc |-> "TypeError", val |-> None, disk |-> d]
     ELSE Removed(save_mappings(d, DelItem(mappings.map, git_branch)),
                  Popped(mappings.map, git_branch))

\* the disk after a call, as the next state
DiskBecomes(d) ==
  /\ mappingPath' = d.path
  /\ parentDir' = d.dir
  /\ mappingFile' = d.dest
  /\ tempFile' = d.temp

(***************************************************************************)
(* The mapping store on its own: SpecStore.  save_mappings is taken one    *)
(* file-system call at a time, and the process may die between two calls.  *)
(***************************************************************************)
\* branch names and values of the mapping files the store is run on
StoreBranches == {"feature/x", "q\"t"}

\* workspace ids of the store's mapping files
StoreIds == {ToString(100 + i) : i \in 1..MaxStoreIds}

StoreValues == StoreIds \cup {None, "null"}

StoreMappings == UNION { [s -> StoreValues] : s \in SUBSET StoreBranches }

StoreFiles ==
  { [kind |-> k, items |-> {}, map |-> EmptyDict] : k \in {"absent", "corrupt"} }
    \cup { [kind |-> "list", items |-> s, map |-> EmptyDict] : s \in SUBSET {"feature/x"} }
    \cup { [kind |-> "dict", items |-> {}, map |-> m] : m \in StoreMappings }

\* names given to add_mapping, remove_mapping, get_mapping and has_mapping
StoreArguments == StoreBranches \cup {"main"}

Running == [exc |-> "running"]

InitStore ==
  /\ defaultBranch = "main"
  /\ manifest = [kind |-> "absent", flag |-> "missing"]
  /\ git = [exit |-> "zero", stdout |-> "main"]
  /\ ambient = ("PATH" :> "/usr/bin")
  /\ op = Idle
  /\ res = Idle
  /\ mappingPath \in MappingPaths
  /\ mappingFile \in StoreFiles
  /\ parentDir \in BOOLEAN
  /\ tempFile \in {NoFile, PartialFile}
  /\ ~parentDir => mappingFile = NoFile /\ tempFile = NoFile
  /\ TempPath(mappingPath) = mappingPath => tempFile = NoFile

StoreFrame == UNCHANGED <<defaultBranch, manifest, git, ambient>>

\* load_mappings()
LoadMappings ==
  /\ op = Idle
  /\ op' = [name |-> "load_mappings"]
  /\ res' = [exc |-> "none", ret |-> load_mappings(mappingFile)]
  /\ UNCHANGED envVars

\* has_mapping(git_branch)
HasMapping ==
  /\ op = Idle
  /\ \E b \in StoreArguments :
       /\ op' = [name |-> "has_mapping", branch |-> b]
       /\ res' = [exc |-> "none", ret |-> has_mapping(mappingFile, b)]
  /\ UNCHANGED envVars

\* get_mapping(git_branch)
GetMapping ==
  /\ op = Idle
  /\ \E b \in StoreArguments :
       /\ op' = [name |-> "get_mapping", branch |-> b]
       /\ res' = get_mapping(mappingFile, b)
  /\ UNCHANGED envVars

\* add_mapping(git_branch, keboola_branch_id), from call to return
AddMapping ==
  /\ op = Idle
  /\ \E b \in StoreArguments, v \in StoreValues :
       \E done \in {add_mapping(TheDisk, b, v)} :
          /\ op' = [name |-> "add_mapping", branch |-> b, value |-> v, old |-> mappingFile]
          /\ res' = [exc |-> done.exc]
          /\ DiskBecomes(done.disk)
  /\ StoreFrame

\* remove_mapping(git_branch), from call to return
RemoveMapping ==
  /\ op = Idle
  /\ \E b \in StoreArguments :
       \E done \in {remove_mapping(TheDisk, b)} :
          /\ op' = [name |-> "remove_mapping", branch |-> b, old |-> mappingFile]
          /\ res' = [exc |-> done.exc, val |-> done.val]
          /\ DiskBecomes(done.disk)
  /\ StoreFrame

\* save_mappings(mappings) is called
SaveBegin ==
  /\ op = Idle
  /\ \E m \in StoreMappings :
       op' = [name |-> "save_mappings", pc |-> "mkdir", mappings |-> m,
              old |-> mappingFile]
  /\ res' = Running
  /\ UNCHANGED envVars

SaveAt(pc) == op # Idle /\ op.name = "save_mappings" /\ op.pc = pc

\* line 31: the directory is created
SaveMkdir ==
  /\ SaveAt("mkdir")
  /\ DiskBecomes(Mkdir(TheDisk))
  /\ op' = [op EXCEPT !.pc = "open"]
  /\ UNCHANGED res
  /\ StoreFrame

\* line 35: the temporary file is opened for writing
SaveOpen ==
  /\ SaveAt("open")
  /\ DiskBecomes(WriteOpen(TheDisk))
  /\ op' = [op EXCEPT !.pc = IF parentDir THEN "write" ELSE "done"]
  /\ res' = IF parentDir THEN res ELSE [exc |-> "FileNotFoundError"]
  /\ StoreFrame

\* line 35: the text is written and the file closed
SaveWrite ==
  /\ SaveAt("write")
  /\ DiskBecomes(WriteClose(TheDisk, op.mappings))
  /\ op' = [op EXCEPT !.pc = "rename"]
  /\ UNCHANGED res
  /\ StoreFrame

\* line 36: the temporary file is renamed over the mapping file
SaveRename ==
  /\ SaveAt("rename")
  /\ DiskBecomes(Rename(TheDisk))
  /\ op' = [op EXCEPT !.pc = "done"]
  /\ res' = [exc |-> "none"]
  /\ StoreFrame

\* the process is killed inside save_mappings; the disk stays as it is
Crash ==
  /\ op # Idle /\ op.name = "save_mappings" /\ op.pc \notin {"done", "crashed"}
  /\ op' = [op EXCEPT !.pc = "crashed"]
  /\ res' = [exc |-> "killed"]
  /\ UNCHANGED envVars

\* the caller goes on after a return, or the server is started again
ReturnStore ==
  /\ op # Idle
  /\ op.name = "save_mappings" => op.pc \in {"done", "crashed"}
  /\ op' = Idle
  /\ res' = Idle
  /\ UNCHANGED envVars

NextStore ==
  \/ LoadMappings
  \/ HasMapping
  \/ GetMapping
  \/ AddMapping
  \/ RemoveMapping
  \/ SaveBegin
  \/ SaveMkdir
  \/ SaveOpen
  \/ SaveWrite
  \/ SaveRename
  \/ Crash
  \/ ReturnStore

SpecStore == InitStore /\ [][NextStore]_vars

(***************************************************************************)
(* Properties of the mapping store, under SpecStore.                       *)
(***************************************************************************)
\* what load_mappings() gives for a file that holds exactly the mapping m
LoadedDict(m) == [type |-> "dict", items |-> {}, map |-> m]

\* the file a completed save of m leaves: the text of m, read back
SavedFile(m) == FileOfText(Dumps(m))

\* C16: for every mapping m from branch names to a workspace id or None, once
\* save_mappings(m) has returned, load_mappings() returns exactly m (the store
\* object holds nothing but the path, so any instance on that file reads the
\* same); and once add_mapping(b, v) has returned, load_mappings() returns a
\* mapping that takes b to v.
C16_LoadAfterSaveReturnsSaved ==
  /\ (SaveAt("done") /\ res.exc = "none")
       => load_mappings(mappingFile) = LoadedDict(op.mappings)
  /\ (op.name = "add_mapping" /\ res.exc = "none")
       => LET loaded == load_mappings(mappingFile)
          IN /\ loaded.type = "dict"
             /\ op.branch \in DOMAIN loaded.map
             /\ loaded.map[op.branch] = op.value

\* a save of a mapping with a quoted key, a None and the string "null", over a
\* file that held something else, has returned
C16_Witness ==
  /\ SaveAt("done")
  /\ res.exc = "none"
  /\ DOMAIN op.mappings = StoreBranches
  /\ op.mappings["q\"t"] = "null"
  /\ op.mappings["feature/x"] = None
  /\ op.old.kind = "dict"
  /\ op.old.map # op.mappings
  /\ mappingFile.map = op.mappings

\* C17: at every point of a save_mappings call, a kill between two of its
\* steps included, the mapping file holds what it held when the call began
\* (nothing, if it was absent) or the complete new mapping, never a text cut
\* short; and the directory exists from the first write on.
C17_SaveIsCrashAtomic ==
  op.name = "save_mappings"
    => /\ mappingFile \in {op.old, SavedFile(op.mappings)}
       /\ mappingFile.kind # "partial"
       /\ (op.pc \in {"write", "rename"} => parentDir)

\* C18: load_mappings() raises nothing and returns a mapping: the stored one
\* when the file holds a JSON object, the empty one when the file is absent
\* or holds anything else.
C18_LoadReturnsMappingOrEmpty ==
  op.name = "load_mappings"
    => /\ res.exc = "none"
       /\ res.ret.type = "dict"
       /\ res.ret.map = (IF mappingFile.kind = "dict" THEN mappingFile.map ELSE EmptyDict)

\* the mapping file with a None entry put in for a branch
WithNullEntry(file, b) == [file EXCEPT !.map = SetItem(file.map, b, None)]

\* C19: for a branch with no entry, get_mapping and remove_mapping return
\* something other than what they return for that branch stored as None.
C19_AbsentDiffersFromNull ==
  /\ (op.name = "get_mapping" /\ mappingFile.kind = "dict"
        /\ op.branch \notin DOMAIN mappingFile.map)
       => res.val # get_mapping(WithNullEntry(mappingFile, op.branch), op.branch).val
  /\ (op.name = "remove_mapping" /\ op.old.kind = "dict"
        /\ op.branch \notin DOMAIN op.old.map)
       => res.val #
            remove_mapping(Disk(mappingPath, TRUE, WithNullEntry(op.old, op.branch), NoFile),
                           op.branch).val

(***************************************************************************)
(* services/branch_mapping.py: the workspace lookup and the remote create. *)
(***************************************************************************)
\* the "branches" list of the manifest: workspaces by path, with numeric ids
ManifestBranchLists ==
  { <<>>,
    << [path |-> "feature-x", id |-> 102] >>,
    << [path |-> "develop", id |-> 102], [path |-> "master", id |-> 101] >> }

\* manifests with their list of workspaces
BranchManifests ==
  { [kind |-> k, flag |-> "missing", branches |-> <<>>] :
      k \in {"absent", "unparsable", "nonobject"} }
    \cup { [kind |-> "object", flag |-> f, branches |-> l] :
             f \in {"false", "true"}, l \in ManifestBranchLists }

NotFound == [exc |-> "none", found |-> FALSE, id |-> None, path |-> None]

RECURSIVE FindIn(_, _)
\* the loop over manifest.get("branches", []): the first entry whose path is
\* one of the search names
FindIn(branches, search_names) ==
  IF branches = <<>> THEN NotFound
  ELSE IF Text(Head(branches).path) \in search_names
       THEN [exc |-> "none", found |-> TRUE, id |-> ToString(Head(branches).id),
             path |-> Head(branches).path]
       ELSE FindIn(Tail(branches), search_names)

\* find_keboola_branch_by_name(branch_name): reads the manifest
find_keboola_branch_by_name(m, branch_name) ==
  IF m.kind \in {"absent", "unparsable"} THEN NotFound
  ELSE IF m.kind = "nonobject" THEN [NotFound EXCEPT !.exc = "AttributeError"]
  ELSE FindIn(m.branches, {Text(branch_name), Replace(Text(branch_name), "/", "-")})

\* what "kbc remote create branch ... --output-json <file>" does: the tool is
\* not on the PATH, or it runs, exits with a code and leaves no output file,
\* one that is not JSON, or a JSON object with newBranchId, with id, or with
\* neither
CreateOutcomes ==
  { [spawn |-> "notfound", returncode |-> -1, output |-> "nofile", branch_id |-> 0] }
    \cup { [spawn |-> "ran", returncode |-> c, output |-> o, branch_id |-> 0] :
             c \in 0..MaxExitCode, o \in {"nofile", "notjson", "object"} }
    \cup { [spawn |-> "ran", returncode |-> c, output |-> o, branch_id |-> 101] :
             c \in 0..MaxExitCode, o \in {"newBranchId", "id"} }

NoCreate == [spawn |-> "none", returncode |-> -1, output |-> "nofile", branch_id |-> 0]

\* create_keboola_branch(branch_name), given what the tool does
create_keboola_branch(outcome) ==
  IF outcome.spawn # "ran" THEN [exc |-> "FileNotFoundError", id |-> None]
  ELSE IF outcome.output \in {"newBranchId", "id"} /\ outcome.branch_id # 0
  THEN [exc |-> "none", id |-> ToString(outcome.branch_id)]
  ELSE [exc |-> "BranchCreationError", id |-> None]

(***************************************************************************)
(* tools/branch.py: link_branch and unlink_branch.                         *)
(***************************************************************************)
\* the dict a branch tool returns, as NoResult is for kbc
NoBranchResult ==
  [keys |-> {}, raised |-> "none", error |-> Absent, git_branch |-> Absent,
   keboola_branch_id |-> Absent, keboola_branch_name |-> Absent, created |-> FALSE,
   unlinked_keboola_branch_id |-> Absent, message |-> <<>>]

\* what a branch tool did: the dict, the disk it leaves, and its calls in order
BranchReturn(result, disk, trace) == [result |-> result, disk |-> disk, trace |-> trace]

ToolRaised(exc, disk, trace) ==
  BranchReturn([NoBranchResult EXCEPT !.raised = exc], disk, trace)

ToolError(error, message, disk, trace) ==
  BranchReturn([NoBranchResult EXCEPT !.keys = {"error", "message"},
                  !.error = error, !.message = <<message>>], disk, trace)

Linked(git_branch, id, name, created, message, disk, trace) ==
  BranchReturn([NoBranchResult EXCEPT
                  !.keys = {"git_branch", "keboola_branch_id", "keboola_branch_name",
                            "created", "message"},
                  !.git_branch = git_branch, !.keboola_branch_id = id,
                  !.keboola_branch_name = name, !.created = created,
                  !.message = message], disk, trace)

\* the dict link_branch returns once add_mapping has returned
LinkStored(added, git_branch, id, name, created, message, trace) ==
  IF added.exc # "none" THEN ToolRaised(added.exc, added.disk, trace \o <<"mapping">>)
  ELSE Linked(git_branch, id, name, created, message, added.disk,
              trace \o <<"mapping", "save">>)

\* lines 64-71 and 96-103, 113-120: add_mapping, then the dict
LinkStore(d, git_branch, id, name, created, message, trace) ==
  LinkStored(add_mapping(d, git_branch, id), git_branch, id, name, created, message, trace)

\* lines 87-122: look the workspace up in the manifest, else create it
LinkFindOrCreate(e, d, git_branch, name, outcome, trace) ==
  LET existing_branch == find_keboola_branch_by_name(e.manifest, name)
  IN IF existing_branch.exc # "none"
     THEN ToolRaised(existing_branch.exc, d, trace \o <<"find">>)
     ELSE IF existing_branch.found
     THEN LinkStore(d, git_branch, existing_branch.id, name, FALSE,
                    <<"Linked to existing Keboola branch", name, existing_branch.id>>,
                    trace \o <<"find">>)
     ELSE
       LET branch_data == create_keboola_branch(outcome)
       IN IF branch_data.exc = "BranchCreationError"
          THEN ToolError("BRANCH_CREATION_ERROR", "BranchCreationError", d,
                         trace \o <<"find", "create">>)
          ELSE IF branch_data.exc # "none"
          THEN ToolRaised(branch_data.exc, d, trace \o <<"find", "create">>)
          ELSE LinkStore(d, git_branch, branch_data.id, name, TRUE,
                         <<"Successfully created and linked Keboola branch", name,
                           branch_data.id>>,
                         trace \o <<"find", "create">>)

\* a link that stores the entry of a linked branch again
LinkExistingRestores(d, git_branch, name, trace) ==
  LET existing_id == get_mapping(d.dest, git_branch)
  IN IF existing_id.exc # "none" THEN ToolRaised(existing_id.exc, d, trace \o <<"mapping">>)
     ELSE LinkStore(d, git_branch, existing_id.val, name, FALSE,
                    <<"Branch already linked to Keboola branch", existing_id.val>>,
                    trace \o <<"mapping">>)

\* lines 76-85: the branch has an entry already
LinkExisting(d, git_branch, name, trace) ==
  LET existing_id == get_mapping(d.dest, git_branch)
  IN IF existing_id.exc # "none" THEN ToolRaised(existing_id.exc, d, trace \o <<"mapping">>)
     ELSE Linked(git_branch, existing_id.val, name, FALSE,
                 <<"Branch already linked to Keboola branch", existing_id.val>>,
                 d, trace \o <<"mapping">>)

\* link_branch(branch_name), given what the remote create would do
link_branch(e, d, branch_name, outcome) ==
  LET branch == get_current_branch(e.git)
  IN IF branch.exc = "GitError" THEN ToolError("GIT_ERROR", branch.code, d, <<"git">>)
     ELSE IF branch.exc # "none" THEN ToolRaised(branch.exc, d, <<"git">>)
     ELSE
       LET guard == validate_project_initialization(e.manifest)
           git_branch == branch.val
           keboola_branch_name ==
             IF branch_name \in {None, ""} THEN git_branch ELSE branch_name
           trace == <<"git", "manifest">>
       IN IF guard.exc = "ProjectNotInitializedError"
          THEN BranchReturn([NoBranchResult EXCEPT !.keys = {"error", "message", "fix"},
                               !.error = "PROJECT_NOT_INITIALIZED",
                               !.message = <<guard.code>>], d, trace)
          ELSE IF guard.exc # "none" THEN ToolRaised(guard.exc, d, trace)
          ELSE IF is_default_branch(e.defaultBranch, git_branch)
          THEN LinkStore(d, git_branch, None, "production", FALSE,
                         <<"Default branch", git_branch, "mapped to production">>, trace)
          ELSE IF has_mapping(d.dest, git_branch)
          THEN LinkExisting(d, git_branch, keboola_branch_name, trace \o <<"mapping">>)
          ELSE LinkFindOrCreate(e, d, git_branch, keboola_branch_name, outcome,
                                trace \o <<"mapping">>)

Unlinked(git_branch, id, message, disk, trace) ==
  BranchReturn([NoBranchResult EXCEPT
                  !.keys = {"git_branch", "unlinked_keboola_branch_id", "message"},
                  !.git_branch = git_branch, !.unlinked_keboola_branch_id = id,
                  !.message = message], disk, trace)

\* the dict unlink_branch returns once remove_mapping has returned
UnlinkRemoved(removed, git_branch) ==
  IF removed.exc # "none"
  THEN ToolRaised(removed.exc, removed.disk, <<"git", "mapping", "mapping">>)
  ELSE Unlinked(git_branch, removed.val,
                <<"Mapping removed. Keboola branch",
                  IF removed.val = None THEN "production" ELSE removed.val,
                  "still exists.">>,
                removed.disk, <<"git", "mapping", "mapping", "save">>)

\* unlink_branch()
unlink_branch(e, d) ==
  LET branch == get_current_branch(e.git)
  IN IF branch.exc = "GitError" THEN ToolError("GIT_ERROR", branch.code, d, <<"git">>)
     ELSE IF branch.exc # "none" THEN ToolRaised(branch.exc, d, <<"git">>)
     ELSE
       LET git_branch == branch.val
       IN IF ~has_mapping(d.dest, git_branch)
          THEN Unlinked(git_branch, None,
                        <<"No mapping exists for git branch", git_branch>>,
                        d, <<"git", "mapping">>)
          ELSE UnlinkRemoved(remove_mapping(d, git_branch), git_branch)

(***************************************************************************)
(* The branch tools: SpecBranch.  A tool call runs from call to return;    *)
(* between calls the developer switches branches.                          *)
(***************************************************************************)
\* mapping files the branch tools are run on
ToolMappingFiles ==
  { [kind |-> k, items |-> {}, map |-> EmptyDict] : k \in {"absent", "corrupt"} }
    \cup { [kind |-> "list", items |-> s, map |-> EmptyDict] : s \in SUBSET {"feature/x"} }
    \cup { [kind |-> "dict", items |-> {}, map |-> m] :
             m \in UNION { [s -> {ToString(101), None}] : s \in SUBSET LocalBranches } }

\* the branch_name argument of link_branch: not given, empty, or a name
LinkNames == {None, "", "develop"}

InitBranch ==
  /\ defaultBranch \in {"main", "develop"}
  /\ manifest \in BranchManifests
  /\ git \in GitStates
  /\ mappingFile \in ToolMappingFiles
  /\ ambient = ("PATH" :> "/usr/bin")
  /\ op = Idle
  /\ res = Idle
  /\ mappingPath = DefaultMappingFile
  /\ parentDir = TRUE
  /\ tempFile = NoFile

\* whether link_branch gets as far as create_keboola_branch
Creates(e, d, branch_name) == "create" \in Range(link_branch(e, d, branch_name, NoCreate).trace)

\* the link_branch tool is called
LinkBranch ==
  /\ op = Idle
  /\ \E branch_name \in LinkNames :
       \E outcome \in IF Creates(Env, TheDisk, branch_name) THEN CreateOutcomes
                      ELSE {NoCreate} :
         \E done \in {link_branch(Env, TheDisk, branch_name, outcome)} :
            /\ op' = [name |-> "link_branch", branch_name |-> branch_name,
                      outcome |-> outcome, old |-> mappingFile]
            /\ res' = [result |-> done.result, trace |-> done.trace]
            /\ DiskBecomes(done.disk)
  /\ StoreFrame

\* the unlink_branch tool is called
UnlinkBranch ==
  /\ op = Idle
  /\ \E done \in {unlink_branch(Env, TheDisk)} :
        /\ op' = [name |-> "unlink_branch", old |-> mappingFile]
        /\ res' = [result |-> done.result, trace |-> done.trace]
        /\ DiskBecomes(done.disk)
  /\ StoreFrame

\* resolver.get_current_git_branch()
GetCurrentBranch ==
  /\ op = Idle
  /\ op' = [name |-> "get_current_branch"]
  /\ res' = get_current_branch(git)
  /\ UNCHANGED envVars

NextBranch ==
  \/ LinkBranch
  \/ UnlinkBranch
  \/ GetCurrentBranch
  \/ Return
  \/ SwitchBranch

SpecBranch == InitBranch /\ [][NextBranch]_vars

(***************************************************************************)
(* Properties of the branch tools, under SpecBranch.                       *)
(***************************************************************************)
\* git reports a branch: the working tree is on it
OnBranch == git.exit = "zero" /\ git.stdout # ""

\* the mapping the store held when the call began
OldMapping == IF op.old.kind = "dict" THEN op.old.map ELSE EmptyDict

\* the call was link_branch on a branch that is no default branch
LinkedOffDefault ==
  op.name = "link_branch" /\ OnBranch /\ ~is_default_branch(defaultBranch, git.stdout)

\* the tool returned a dict without an error entry
NoError == res.result.raised = "none" /\ "error" \notin res.result.keys

\* what the claim says of a link on a branch that has an entry
ReportedUnchanged ==
  /\ NoError
  /\ res.result.keboola_branch_id = OldMapping[git.stdout]
  /\ mappingFile = op.old
  /\ tempFile = NoFile
  /\ Range(res.trace) \cap {"find", "create", "save"} = {}

\* C11 as stated: link_branch on a non-default branch that has a mapping entry
\* returns the stored id, None included, leaves the mapping file as it was and
\* neither looks the workspace up in the manifest nor creates one.
C11_LinkOnLinkedBranchReportsStoredId ==
  (LinkedOffDefault /\ git.stdout \in DOMAIN OldMapping) => ReportedUnchanged

\* C11, amended: the same, for calls in which validate_project_initialization
\* returns normally; a link on a linked branch whose manifest the guard
\* rejects returns the guard's error instead of the stored id.
C11_LinkOnLinkedBranchPastGuardReportsStoredId ==
  (/\ LinkedOffDefault
   /\ git.stdout \in DOMAIN OldMapping
   /\ validate_project_initialization(manifest).exc = "none")
    => ReportedUnchanged

\* a link on feature/x, stored as None, with a manifest that lists a workspace
\* for it under the normalized name, has returned None
C11_Witness ==
  /\ LinkedOffDefault
  /\ git.stdout = "feature/x"
  /\ "feature/x" \in DOMAIN OldMapping
  /\ OldMapping["feature/x"] = None
  /\ manifest.kind = "object" /\ manifest.flag = "true"
  /\ find_keboola_branch_by_name(manifest, "feature/x").found
  /\ res.result.keboola_branch_id = None
  /\ "keboola_branch_id" \in res.result.keys

\* C12: unlink_branch on a branch with no mapping entry returns a dict with no
\* error, leaves the mapping file and the disk beside it as they were, and the
\* dict differs from the one unlink_branch returns for that branch stored as
\* None.
C12_UnlinkOfUnlinkedBranchIsNoOp ==
  (op.name = "unlink_branch" /\ OnBranch /\ git.stdout \notin DOMAIN OldMapping)
    => /\ NoError
       /\ mappingFile = op.old
       /\ tempFile = NoFile
       /\ "save" \notin Range(res.trace)
       /\ res.result #
            unlink_branch(Env, Disk(mappingPath, parentDir,
                                    [kind |-> "dict", items |-> {},
                                     map |-> SetItem(OldMapping, git.stdout, None)],
                                    NoFile)).result

\* C13: link_branch on a default branch stores None for it and reports
\* production, with no manifest lookup and no remote create, whatever the
\* manifest is.
C13_DefaultBranchLinksToProduction ==
  (op.name = "link_branch" /\ OnBranch /\ is_default_branch(defaultBranch, git.stdout))
    => /\ NoError
       /\ res.result.keboola_branch_id = None
       /\ res.result.keboola_branch_name = "production"
       /\ mappingFile.kind = "dict"
       /\ mappingFile.map = SetItem(OldMapping, git.stdout, None)
       /\ Range(res.trace) \cap {"find", "create"} = {}

\* the name link_branch looks up and creates
LinkName == IF op.branch_name \in {None, ""} THEN git.stdout ELSE op.branch_name

\* the ids the two paths of the call returned
PathIds ==
  LET found == find_keboola_branch_by_name(manifest, LinkName)
      made == create_keboola_branch(op.outcome)
  IN IF found.exc = "none" /\ found.found THEN {found.id}
     ELSE IF op.outcome.spawn # "none" /\ made.exc = "none" THEN {made.id}
     ELSE {}

\* C14: a link_branch that gets to the lookup (branch not default, no entry,
\* guard passed) returns BRANCH_CREATION_ERROR exactly when neither the
\* lookup nor the create gave an id, and then leaves the store as it was; an
\* entry it writes holds an id one of the two gave.
C14_CreationFailedIffNoId ==
  (/\ LinkedOffDefault
   /\ git.stdout \notin DOMAIN OldMapping
   /\ validate_project_initialization(manifest).exc = "none")
    => /\ res.result.raised = "none"
       /\ (res.result.error = "BRANCH_CREATION_ERROR") <=> (PathIds = {})
       /\ PathIds = {} => mappingFile = op.old
       /\ mappingFile # op.old
            => /\ mappingFile.kind = "dict"
               /\ mappingFile.map[git.stdout] \in PathIds

\* C15: unlink_branch on a branch that has an entry removes that entry and no
\* other, returns the value it held, and calls neither the external tool nor
\* the remote platform.
C15_UnlinkRemovesOnlyThatEntry ==
  (op.name = "unlink_branch" /\ OnBranch /\ git.stdout \in DOMAIN OldMapping)
    => /\ NoError
       /\ res.result.unlinked_keboola_branch_id = OldMapping[git.stdout]
       /\ mappingFile.kind = "dict"
       /\ mappingFile.map = DelItem(OldMapping, git.stdout)
       /\ Range(res.trace) \subseteq {"git", "mapping", "save"}

\* an unlink of feature/x, stored with an id beside two other entries
C15_Witness ==
  /\ op.name = "unlink_branch"
  /\ git.stdout = "feature/x"
  /\ DOMAIN OldMapping = LocalBranches
  /\ OldMapping["feature/x"] # None
  /\ OldMapping["develop"] # None
  /\ res.result.unlinked_keboola_branch_id = OldMapping["feature/x"]
  /\ DOMAIN mappingFile.map = {"main", "develop"}

\* C20: get_current_branch() returns the name git printed, or raises GitError:
\* on a detached head, on a non-zero exit, and when git cannot be run.
C20_CurrentBranchOrGitError ==
  op.name = "get_current_branch"
    => IF OnBranch THEN res.exc = "none" /\ res.val = git.stdout
       ELSE res.exc = "GitError"

(***************************************************************************)
(* server.py: the per-request client factory of the proxy mode.            *)
(***************************************************************************)
\* the headers every proxied request carries
BaseHeaders == ("X-StorageAPI-Token" :> "token")

\* the exceptions the try block of the factory swallows
SwallowedByFactory == {"BranchResolutionError", "ProjectNotInitializedError"}

\* what the factory does: raised names an exception that escapes it, sent says
\* whether a client, and so a request, goes out, headers are the headers of it
ClientMade(headers, trace) ==
  [raised |-> "none", sent |-> TRUE, headers |-> headers, trace |-> trace]

\* the except clause: a swallowed failure leaves the headers as they are
FactoryFailed(exc, trace) ==
  IF exc \in SwallowedByFactory THEN ClientMade(BaseHeaders, trace)
  ELSE [raised |-> exc, sent |-> FALSE, headers |-> BaseHeaders, trace |-> trace]

\* "if branch_id:" then the header is set
FactoryHeaders(branch_id) ==
  IF branch_id \notin {None, ""} THEN BaseHeaders @@ ("X-Branch-Id" :> branch_id)
  ELSE BaseHeaders

\* branch_aware_client_factory(): guard, git, mapping, then the client
branch_aware_client_factory(e) ==
  LET guard == validate_project_initialization(e.manifest)
  IN IF guard.exc # "none" THEN FactoryFailed(guard.exc, guard.trace)
     ELSE
       LET branch == get_current_branch(e.git)
       IN IF branch.exc # "none"
          THEN FactoryFailed(branch.exc, guard.trace \o branch.trace)
          ELSE
            LET id == get_keboola_branch_id(e.defaultBranch, e.mappingFile, branch.val)
            IN IF id.exc # "none"
               THEN FactoryFailed(id.exc, (guard.trace \o branch.trace) \o id.trace)
               ELSE ClientMade(FactoryHeaders(id.val),
                               (guard.trace \o branch.trace) \o id.trace)

(***************************************************************************)
(* tools/branch.py: get_mapping and list_mappings.                         *)
(***************************************************************************)
\* the dict get_mapping returns
MappingReport(git_branch, id, linked, is_production) ==
  [raised |-> "none", error |-> Absent, git_branch |-> git_branch,
   keboola_branch_id |-> id, linked |-> linked, is_production |-> is_production]

NoReport == MappingReport(Absent, Absent, FALSE, FALSE)

\* the get_mapping tool
get_mapping_tool(e) ==
  LET branch == get_current_branch(e.git)
  IN IF branch.exc = "GitError" THEN [NoReport EXCEPT !.error = "GIT_ERROR"]
     ELSE IF branch.exc # "none" THEN [NoReport EXCEPT !.raised = branch.exc]
     ELSE IF has_mapping(e.mappingFile, branch.val)
     THEN LET keboola_branch_id == get_mapping(e.mappingFile, branch.val)
          IN IF keboola_branch_id.exc # "none"
             THEN [NoReport EXCEPT !.raised = keboola_branch_id.exc]
             ELSE MappingReport(branch.val, keboola_branch_id.val, TRUE,
                                keboola_branch_id.val = None)
     ELSE IF is_default_branch(e.defaultBranch, branch.val)
     THEN MappingReport(branch.val, None, TRUE, TRUE)
     ELSE MappingReport(branch.val, None, FALSE, FALSE)

\* the list_mappings tool
list_mappings(e) ==
  LET branch == get_current_branch(e.git)
  IN IF branch.exc \notin {"none", "GitError"}
     THEN [raised |-> branch.exc, mappings |-> load_mappings(NoFile),
           current_git_branch |-> None]
     ELSE [raised |-> "none", mappings |-> load_mappings(e.mappingFile),
           current_git_branch |-> IF branch.exc = "none" THEN branch.val ELSE None]

(***************************************************************************)
(* One developer session: SpecSession.  Calls of every tool and of the     *)
(* proxy follow one another; between calls the developer switches branch.  *)
(***************************************************************************)
\* manifests of the session: none, one that does not allow the override, and
\* valid ones that list no workspace or list feature-x and feature/x, in
\* either order
SessionManifests ==
  { [kind |-> "absent", flag |-> "missing", branches |-> <<>>],
    [kind |-> "object", flag |-> "false", branches |-> <<>>],
    [kind |-> "object", flag |-> "true", branches |-> <<>>],
    [kind |-> "object", flag |-> "true",
     branches |-> << [path |-> "feature-x", id |-> 102], [path |-> "feature/x", id |-> 101] >>],
    [kind |-> "object", flag |-> "true",
     branches |-> << [path |-> "feature/x", id |-> 101], [path |-> "feature-x", id |-> 102] >>] }

InitSession ==
  /\ defaultBranch \in {"main", "develop"}
  /\ manifest \in SessionManifests
  /\ git \in GitStates
  /\ mappingFile \in ToolMappingFiles
  /\ ambient = ("PATH" :> "/usr/bin")
  /\ op = Idle
  /\ res = Idle
  /\ mappingPath = DefaultMappingFile
  /\ parentDir = TRUE
  /\ tempFile = NoFile

\* a request is proxied: the client factory is called for it
ProxyRequest ==
  /\ op = Idle
  /\ op' = [name |-> "proxy_request"]
  /\ res' = branch_aware_client_factory(Env)
  /\ UNCHANGED envVars

\* the get_mapping tool is called
GetMappingTool ==
  /\ op = Idle
  /\ op' = [name |-> "get_mapping"]
  /\ res' = get_mapping_tool(Env)
  /\ UNCHANGED envVars

\* the list_mappings tool is called
ListMappings ==
  /\ op = Idle
  /\ op' = [name |-> "list_mappings"]
  /\ res' = list_mappings(Env)
  /\ UNCHANGED envVars

\* add_mapping(git_branch, keboola_branch_id) on any branch
SessionAddMapping ==
  /\ op = Idle
  /\ \E b \in LocalBranches, v \in {ToString(101), None} :
       \E done \in {add_mapping(TheDisk, b, v)} :
          /\ op' = [name |-> "add_mapping", branch |-> b, value |-> v, old |-> mappingFile]
          /\ res' = [exc |-> done.exc]
          /\ DiskBecomes(done.disk)
  /\ StoreFrame

\* the kbc tool is called with one command
SessionKbc ==
  /\ op = Idle
  /\ \E command \in {<<"s", "y", "n", "c", " ", "p", "u", "s", "h">>} :
       \E outcome \in IF Spawns(Env, command) THEN ProcOutcomes ELSE {NoOutcome} :
         /\ op' = [name |-> "kbc", command |-> command, args |-> NoArgs,
                   outcome |-> outcome]
         /\ res' = kbc(Env, command, NoArgs, outcome)
  /\ UNCHANGED envVars

NextSession ==
  \/ LinkBranch
  \/ UnlinkBranch
  \/ SessionAddMapping
  \/ GetKeboolaBranchId
  \/ BranchContext
  \/ SessionKbc
  \/ ProxyRequest
  \/ GetMappingTool
  \/ ListMappings
  \/ Return
  \/ SwitchBranch

SpecSession == InitSession /\ [][NextSession]_vars

(***************************************************************************)
(* Properties of a session, under SpecSession.                             *)
(***************************************************************************)
\* what the resolver gives for the branch the working tree is on, now
ResolvedNow ==
  LET guard == validate_project_initialization(manifest)
      branch == get_current_branch(git)
  IN IF guard.exc # "none" THEN guard
     ELSE IF branch.exc # "none" THEN branch
     ELSE get_keboola_branch_id(defaultBranch, mappingFile, branch.val)

\* C21: a proxied request carries X-Branch-Id equal to the id resolved for the
\* current branch (no header for production), and when the resolution fails,
\* by the guard or for want of a mapping, no request goes out.
C21_ProxyFailsClosed ==
  op.name = "proxy_request"
    => IF ResolvedNow.exc = "none"
       THEN /\ res.sent
            /\ res.headers = FactoryHeaders(ResolvedNow.val)
       ELSE ~res.sent

(***************************************************************************)
(* Two server processes on one working directory: SpecRace.  Each call is  *)
(* taken one read, one file-system call at a time, and the steps of the    *)
(* two processes interleave; op and res hold one frame per process.        *)
(***************************************************************************)
Procs == {1, 2}

\* a file with its text: what load_mappings makes of it, and the characters
Filed(t) == FileOfText(t) @@ [text |-> t]

GoneFile == NoFile @@ [text |-> <<>>]

\* the mapping files the two processes start on
RaceMappings ==
  { EmptyDict, SetItem(EmptyDict, "feature/x", ToString(101)) }

\* the frame of a process: the call, the line it is at, its locals (branch,
\* value, mappings, the open file fd), and what it read: git at its query of
\* the branch, the mapping file at its load or at its read of the value
Frame(name, pc, branch, value) ==
  [name |-> name, pc |-> pc, branch |-> branch, value |-> value,
   mappings |-> EmptyDict, fd |-> "none",
   git |-> [exit |-> "none", stdout |-> ""], read |-> GoneFile]

IdleFrame == Frame("idle", "idle", None, None)

InitRace ==
  /\ defaultBranch = "main"
  /\ manifest = [kind |-> "object", flag |-> "true"]
  /\ git \in { [exit |-> "zero", stdout |-> b] : b \in {"main", "feature/x"} }
  /\ ambient = ("PATH" :> "/usr/bin")
  /\ mappingPath = DefaultMappingFile
  /\ parentDir = TRUE
  /\ mappingFile \in {GoneFile} \cup { Filed(Dumps(m)) : m \in RaceMappings }
  /\ tempFile = GoneFile
  /\ op = [p \in Procs |-> IdleFrame]
  /\ res = [p \in Procs |-> Idle]

\* process p moves to frame f with result r
Step(p, f, r) ==
  /\ op' = [op EXCEPT ![p] = f]
  /\ res' = [res EXCEPT ![p] = r]

At(p, names, pc) == op[p].name \in names /\ op[p].pc = pc

Readers == {"get_keboola_branch_id", "branch_context", "proxy_request"}

Writers == {"add_mapping", "remove_mapping"}

\* what the call of that name gives for the outcome of get_keboola_branch_id
Finished(f, id, trace) ==
  CASE f.name = "branch_context" ->
         IF id.exc # "none" THEN ContextFailed(id, trace)
         ELSE Context("none", "", {}, Overlay(ambient, id.val),
                      [git_branch |-> f.branch, keboola_branch_id |-> id.val,
                       is_production |-> id.val = None], trace)
    [] f.name = "proxy_request" ->
         IF id.exc # "none" THEN FactoryFailed(id.exc, trace)
         ELSE ClientMade(FactoryHeaders(id.val), trace)
    [] OTHER -> [id EXCEPT !.trace = trace]

\* get_keboola_branch_id(git_branch) is called: line 105, the default test
ResolveBegin(p) ==
  /\ op[p] = IdleFrame
  /\ \E b \in {"feature/x", "main"} :
       IF is_default_branch(defaultBranch, b)
       THEN Step(p, Frame("get_keboola_branch_id", "done", b, None), Returned(None, <<>>))
       ELSE Step(p, Frame("get_keboola_branch_id", "has", b, None), Running)
  /\ UNCHANGED envVars

\* branch_context() is entered, or the client factory is called: the guard
CallBegin(p) ==
  /\ op[p] = IdleFrame
  /\ \E name \in {"branch_context", "proxy_request"} :
       \E guard \in {validate_project_initialization(manifest)} :
          IF guard.exc # "none"
          THEN Step(p, Frame(name, "done", None, None),
                    Finished(Frame(name, "done", None, None), guard, guard.trace))
          ELSE Step(p, Frame(name, "git", None, None), Running)
  /\ UNCHANGED envVars

\* get_current_git_branch(), then the default test of get_keboola_branch_id
QueryGit(p) ==
  /\ At(p, Readers, "git")
  /\ \E branch \in {get_current_branch(git)} :
       \E f \in {[op[p] EXCEPT !.branch = branch.val, !.git = git]} :
          IF branch.exc # "none"
          THEN Step(p, [f EXCEPT !.pc = "done"], Finished(f, branch, <<"manifest", "git">>))
          ELSE IF is_default_branch(defaultBranch, branch.val)
          THEN Step(p, [f EXCEPT !.pc = "done"],
                    Finished(f, Returned(None, <<>>), <<"manifest", "git">>))
          ELSE Step(p, [f EXCEPT !.pc = "has"], Running)
  /\ UNCHANGED envVars

\* line 109: has_mapping(git_branch), one read of the file
ResolveHas(p) ==
  /\ At(p, Readers, "has")
  /\ Step(p, [op[p] EXCEPT !.pc = IF has_mapping(mappingFile, op[p].branch)
                                  THEN "get" ELSE "keys"], Running)
  /\ UNCHANGED envVars

\* line 110: get_mapping(git_branch), another read of the file
ResolveGet(p) ==
  /\ At(p, Readers, "get")
  /\ Step(p, [op[p] EXCEPT !.read = mappingFile, !.pc = "done"],
          Finished(op[p], get_mapping(mappingFile, op[p].branch),
                   <<"mapping", "mapping">>))
  /\ UNCHANGED envVars

\* lines 113-117: the keys of the file, and BranchResolutionError
ResolveKeys(p) ==
  /\ At(p, Readers, "keys")
  /\ \E keys \in {mapping_keys(mappingFile)} :
       Step(p, [op[p] EXCEPT !.pc = "done"],
            Finished(op[p],
                     IF keys.exc # "none" THEN keys
                     ELSE Outcome("BranchResolutionError", "NO_MAPPING", None,
                                  keys.available, <<>>),
                     <<"mapping", "mapping">>))
  /\ UNCHANGED envVars

\* add_mapping(git_branch, keboola_branch_id) is called
AddBegin(p) ==
  /\ op[p] = IdleFrame
  /\ \E b \in {"feature/x", "develop"} :
       Step(p, Frame("add_mapping", "load", b, ToString(101)), Running)
  /\ UNCHANGED envVars

\* remove_mapping(git_branch) is called, as unlink_branch calls it
RemoveBegin(p) ==
  /\ op[p] = IdleFrame
  /\ Step(p, Frame("remove_mapping", "load", "feature/x", None), Running)
  /\ UNCHANGED envVars

\* lines 40-41 and 46-47: load_mappings(), then the entry is set or popped
StoreLoad(p) ==
  /\ At(p, Writers, "load")
  /\ \E mappings \in {load_mappings(mappingFile)} :
       IF mappings.type # "dict"
       THEN Step(p, [op[p] EXCEPT !.pc = "done", !.read = mappingFile],
                 [exc |-> "TypeError", val |-> None])
       ELSE Step(p, [op[p] EXCEPT
                       !.pc = "mkdir", !.read = mappingFile,
                       !.mappings =
                          IF op[p].name = "add_mapping"
                          THEN SetItem(mappings.map, op[p].branch, op[p].value)
                          ELSE DelItem(mappings.map, op[p].branch),
                       !.value =
                          IF op[p].name = "add_mapping" THEN op[p].value
                          ELSE Popped(mappings.map, op[p].branch)],
                 Running)
  /\ UNCHANGED envVars

\* line 31: mkdir(parents=True, exist_ok=True)
RaceMkdir(p) ==
  /\ At(p, Writers, "mkdir")
  /\ parentDir' = TRUE
  /\ Step(p, [op[p] EXCEPT !.pc = "open"], Running)
  /\ UNCHANGED <<defaultBranch, manifest, git, mappingFile, ambient, mappingPath, tempFile>>

\* line 35: write_text opens the temporary file: it is created, or the file
\* that is there, whoever made it, is truncated
RaceOpen(p) ==
  /\ At(p, Writers, "open")
  /\ tempFile' = Filed(<<>>)
  /\ Step(p, [op[p] EXCEPT !.pc = "write", !.fd = "temp"], Running)
  /\ UNCHANGED <<defaultBranch, manifest, git, mappingFile, ambient, mappingPath, parentDir>>

\* the text of a file after t is written at its start
Written(file, t) == Filed(t \o SubSeq(file.text, Len(t) + 1, Len(file.text)))

\* line 35: write_text writes the text to the file it opened, under whatever
\* name that file is by now, and closes it
RaceWrite(p) ==
  /\ At(p, Writers, "write")
  /\ \E t \in {Dumps(op[p].mappings)} :
       /\ tempFile' = IF op[p].fd = "temp" THEN Written(tempFile, t) ELSE tempFile
       /\ mappingFile' = IF op[p].fd = "dest" THEN Written(mappingFile, t) ELSE mappingFile
  /\ Step(p, [op[p] EXCEPT !.pc = "rename", !.fd = "none"], Running)
  /\ UNCHANGED <<defaultBranch, manifest, git, ambient, mappingPath, parentDir>>

\* the file another process holds open goes by a new name, or by none
Moved(f) ==
  [f EXCEPT !.fd = CASE f.fd = "temp" -> "dest"
                     [] f.fd = "dest" -> "gone"
                     [] OTHER -> f.fd]

\* line 36: temp_file.rename(self.mapping_file); FileNotFoundError when the
\* temporary file is no longer there
RaceRename(p) ==
  /\ At(p, Writers, "rename")
  /\ IF tempFile.kind = "absent"
     THEN /\ Step(p, [op[p] EXCEPT !.pc = "done"],
                  [exc |-> "FileNotFoundError", val |-> None])
          /\ UNCHANGED envVars
     ELSE /\ mappingFile' = tempFile
          /\ tempFile' = GoneFile
          /\ op' = [q \in Procs |-> IF q = p THEN [op[p] EXCEPT !.pc = "done"]
                                    ELSE Moved(op[q])]
          /\ res' = [res EXCEPT ![p] = [exc |-> "none", val |-> op[p].value]]
          /\ UNCHANGED <<defaultBranch, manifest, git, ambient, mappingPath, parentDir>>

\* the call of process p has returned to its caller
ReturnRace(p) ==
  /\ op[p].pc = "done"
  /\ Step(p, IdleFrame, Idle)
  /\ UNCHANGED envVars

\* the developer checks out the other branch, whatever the servers are doing
Checkout ==
  /\ git' \in { [exit |-> "zero", stdout |-> b] : b \in {"main", "feature/x"} } \ {git}
  /\ UNCHANGED <<defaultBranch, manifest, mappingFile, ambient, op, res,
               mappingPath, parentDir, tempFile>>

NextRace ==
  \/ \E p \in Procs : ResolveBegin(p)
  \/ \E p \in Procs : CallBegin(p)
  \/ \E p \in Procs : QueryGit(p)
  \/ \E p \in Procs : ResolveHas(p)
  \/ \E p \in Procs : ResolveGet(p)
  \/ \E p \in Procs : ResolveKeys(p)
  \/ \E p \in Procs : AddBegin(p)
  \/ \E p \in Procs : RemoveBegin(p)
  \/ \E p \in Procs : StoreLoad(p)
  \/ \E p \in Procs : RaceMkdir(p)
  \/ \E p \in Procs : RaceOpen(p)
  \/ \E p \in Procs : RaceWrite(p)
  \/ \E p \in Procs : RaceRename(p)
  \/ \E p \in Procs : ReturnRace(p)
  \/ Checkout

SpecRace == InitRace /\ [][NextRace]_vars

(***************************************************************************)
(* Properties of concurrent calls, under SpecRace.                         *)
(***************************************************************************)
\* the mapping a file holds: its entries when it is a JSON object
MappingOf(file) == IF file.kind = "dict" THEN file.map ELSE EmptyDict

\* process p has finished a call of that name
Done(p, name) == op[p].name = name /\ op[p].pc = "done"

\* C22: get_keboola_branch_id of a non-default branch returns the value the
\* store held for it at the value read, None only for an entry that is null;
\* it returns nothing for a branch that had no entry by then.
C22_ResolveReturnsStoredValue ==
  \A p \in Procs :
    (/\ Done(p, "get_keboola_branch_id")
     /\ ~is_default_branch(defaultBranch, op[p].branch)
     /\ res[p].exc = "none")
      => /\ op[p].branch \in DOMAIN MappingOf(op[p].read)
         /\ res[p].val = MappingOf(op[p].read)[op[p].branch]

\* both processes have finished an add_mapping or remove_mapping
BothSaved == \A p \in Procs : op[p].name \in Writers /\ op[p].pc = "done"

\* C23: when an add_mapping or remove_mapping of one process interleaves with
\* one of the other, both return normally, and the mapping file then holds
\* the mapping one of them saved (the update of the other may be lost).
C23_InterleavedUpdatesLastWriterWins ==
  BothSaved
    => /\ \A p \in Procs : res[p].exc = "none"
       /\ mappingFile.kind = "dict"
       /\ \E p \in Procs : mappingFile.map = op[p].mappings

\* the mapping file is absent or holds the whole text of one mapping
DestComplete ==
  \/ mappingFile.kind = "absent"
  \/ mappingFile.kind = "dict" /\ mappingFile.text = Dumps(mappingFile.map)

\* C24: two save_mappings calls of two processes, which write the same
\* temporary path, both return without an exception, and at every moment the
\* mapping file holds a complete mapping or its previous content.
C24_ConcurrentSavesCompleteAndAtomic ==
  /\ \A p \in Procs : (op[p].name \in Writers /\ op[p].pc = "done") => res[p].exc = "none"
  /\ DestComplete

\* C25: an entry of the store stays in it, under its key, from one state of a
\* session to the next, unless the step is an unlink_branch on that branch;
\* no link, add_mapping, resolution, kbc, get_mapping or list_mappings call
\* removes it.
C25_EntriesStayUntilUnlinked ==
  [][\A b \in DOMAIN StoredMapping :
       \/ b \in DOMAIN StoredMapping'
       \/ op'.name = "unlink_branch" /\ git.stdout = b]_vars

\* a link of feature/x has added its entry beside those of main and develop
C25_Witness ==
  /\ op.name = "link_branch"
  /\ git.stdout = "feature/x"
  /\ DOMAIN OldMapping = {"main", "develop"}
  /\ DOMAIN StoredMapping = LocalBranches

\* the branch git gave process p at its own query, and the entry the mapping
\* file held for it at the value read of p
SeenBranch(p) == op[p].git.stdout

SeenEntry(p) == MappingOf(op[p].read)[SeenBranch(p)]

HasSeenEntry(p) == SeenBranch(p) \in DOMAIN MappingOf(op[p].read)

\* C26: a branch_context() that yields, and a client factory that returns,
\* report the branch git printed at the call's own query and the workspace
\* the mapping file held for it at the call's own read: production on a
\* default branch, the stored entry otherwise, whatever an earlier or a
\* concurrent call saw.
C26_EveryCallReadsAfresh ==
  \A p \in Procs :
    /\ (Done(p, "branch_context") /\ res[p].exc = "none")
         => /\ res[p].info.git_branch = SeenBranch(p)
            /\ is_default_branch(defaultBranch, SeenBranch(p))
                 => /\ res[p].info.keboola_branch_id = None
                    /\ KBC_BRANCH_ID \notin DOMAIN res[p].env
            /\ (~is_default_branch(defaultBranch, SeenBranch(p)) /\ HasSeenEntry(p))
                 => /\ res[p].info.keboola_branch_id = SeenEntry(p)
                    /\ res[p].env[KBC_BRANCH_ID] = SeenEntry(p)
    /\ (Done(p, "proxy_request") /\ res[p].raised = "none")
         => /\ is_default_branch(defaultBranch, SeenBranch(p))
                 => "X-Branch-Id" \notin DOMAIN res[p].headers
            /\ (~is_default_branch(defaultBranch, SeenBranch(p)) /\ HasSeenEntry(p))
                 => res[p].headers = FactoryHeaders(SeenEntry(p))

\* two calls with a checkout between their queries: process 1 saw main and
\* yielded production, process 2 saw feature/x and yielded its workspace
C26_Witness ==
  /\ Done(1, "branch_context") /\ Done(2, "branch_context")
  /\ SeenBranch(1) = "main" /\ res[1].info.git_branch = "main"
  /\ res[1].info.keboola_branch_id = None
  /\ SeenBranch(2) = "feature/x" /\ res[2].info.git_branch = "feature/x"
  /\ res[2].info.keboola_branch_id = ToString(101)

(***************************************************************************)
(* More properties of a session, under SpecSession.                        *)
(***************************************************************************)
\* the ids of the manifest's workspaces whose path is the name itself
ExactIds ==
  { ToString(manifest.branches[i].id) :
      i \in { j \in DOMAIN manifest.branches : manifest.branches[j].path = LinkName } }

\* C27: a link_branch that looks the workspace up by name (branch not default,
\* no entry, guard passed) stores and reports the id of the workspace whose
\* path is the name itself whenever the manifest lists one, even if it lists
\* one under the normalized name before it.
C27_ExactNameBeforeNormalized ==
  (/\ LinkedOffDefault
   /\ op.old.kind # "list"
   /\ git.stdout \notin DOMAIN OldMapping
   /\ validate_project_initialization(manifest).exc = "none"
   /\ ExactIds # {})
    => /\ NoError
       /\ res.result.keboola_branch_id \in ExactIds
       /\ mappingFile.kind = "dict"
       /\ mappingFile.map[git.stdout] \in ExactIds

\* what get_keboola_branch_id gives for the current branch
ResolvedBranch == get_keboola_branch_id(defaultBranch, mappingFile, git.stdout)

\* C28: on every mapping file that is no JSON list and every current branch,
\* the get_mapping tool reports the id and the production flag that
\* get_keboola_branch_id gives for the branch, and linked = False exactly
\* when get_keboola_branch_id raises BranchResolutionError.
C28_GetMappingAgreesWithResolver ==
  (op.name = "get_mapping" /\ OnBranch /\ mappingFile.kind # "list")
    => /\ res.raised = "none"
       /\ res.linked <=> ResolvedBranch.exc # "BranchResolutionError"
       /\ ResolvedBranch.exc = "none"
            => /\ res.keboola_branch_id = ResolvedBranch.val
               /\ res.is_production <=> ResolvedBranch.val = None

\* the project is initialized and the working tree is on a branch that is no
\* default branch
OffDefault ==
  /\ validate_project_initialization(manifest).exc = "none"
  /\ OnBranch
  /\ ~is_default_branch(defaultBranch, git.stdout)

\* the entry of branch b, Absent when the store has none
EntryOf(m, b) == IF b \in DOMAIN m THEN m[b] ELSE Absent

\* what get_keboola_branch_id(b) and branch_context() give from this state on:
\* both yield id
YieldsId(id) ==
  /\ ResolvedBranch.exc = "none" /\ ResolvedBranch.val = id
  /\ branch_context(Env).exc = "none"
  /\ branch_context(Env).info.keboola_branch_id = id

\* both fail with BranchResolutionError
FailsUnmapped ==
  /\ ResolvedBranch.exc = "BranchResolutionError"
  /\ branch_context(Env).exc = "BranchResolutionError"

\* once a link on b has returned an id, the resolutions yield it; once an
\* unlink on b has returned, they fail
SessionState ==
  /\ (op.name = "link_branch" /\ OffDefault /\ NoError)
       => YieldsId(res.result.keboola_branch_id)
  /\ (op.name = "unlink_branch" /\ OffDefault /\ NoError) => FailsUnmapped

\* a step that is no link, unlink or add_mapping leaves the mapping file as
\* it is, and a link or unlink leaves the entries of the other branches
SessionStep ==
  /\ op'.name \notin {"link_branch", "unlink_branch", "add_mapping"}
       => mappingFile' = mappingFile
  /\ op'.name \in {"link_branch", "unlink_branch"}
       => \A b \in LocalBranches \ {git.stdout} :
            EntryOf(StoredMapping', b) = EntryOf(StoredMapping, b)

\* C29: in a session with a valid manifest on a non-default branch b, from a
\* link that reports id x on, get_keboola_branch_id(b) and branch_context()
\* yield x, and from an unlink on they fail with BranchResolutionError, and
\* no call but a link or an unlink (or an add_mapping) changes what they
\* give.
C29_LinkedUntilUnlinked == []SessionState /\ [][SessionStep]_vars

(***************************************************************************)
(* The waits of the tools: SpecLive.  A tool call stops at each            *)
(* subprocess.run until the subprocess exits or, where the call passes a   *)
(* timeout, until the timeout expires.  An external tool may never exit;   *)
(* the server itself keeps running, so the expiry of a timeout and the     *)
(* return of a result are weakly fair.                                     *)
(***************************************************************************)
LiveTools == {"kbc", "link_branch", "unlink_branch", "get_mapping", "list_mappings"}

\* the command the kbc tool is given
LiveCommand == <<"s", "y", "n", "c", " ", "p", "u", "s", "h">>

InitLive ==
  /\ defaultBranch = "main"
  /\ manifest \in SessionManifests
  /\ git \in GitStates
  /\ mappingFile \in ToolMappingFiles
  /\ ambient = ("PATH" :> "/usr/bin")
  /\ op = Idle
  /\ res = Idle
  /\ mappingPath = DefaultMappingFile
  /\ parentDir = TRUE
  /\ tempFile = NoFile

LiveAt(names, pc) == op # Idle /\ op.name \in names /\ op.pc = pc

\* the tool has its result: the dict, and the disk the call leaves
LiveDone(result, disk) ==
  /\ op' = [op EXCEPT !.pc = "done"]
  /\ res' = result
  /\ DiskBecomes(disk)
  /\ StoreFrame

\* the tool goes on to wait for the next subprocess
LiveWait(pc) ==
  /\ op' = [op EXCEPT !.pc = pc]
  /\ UNCHANGED res
  /\ UNCHANGED envVars

\* a tool is called; every tool but kbc starts git at once, kbc after the
\* guard, if the guard passes
LiveBegin ==
  /\ op = Idle
  /\ \E tool \in LiveTools :
       IF tool = "kbc" /\ validate_project_initialization(manifest).exc # "none"
       THEN /\ op' = [name |-> tool, pc |-> "done"]
            /\ res' = kbc(Env, LiveCommand, NoArgs, NoOutcome).result
            /\ UNCHANGED envVars
       ELSE /\ op' = [name |-> tool, pc |-> "git"]
            /\ res' = Running
            /\ UNCHANGED envVars

\* git.py:21-27, subprocess.run without timeout: git exits (or cannot be
\* started), and the tool runs on to its next subprocess or to its result
GitExits ==
  /\ LiveAt(LiveTools, "git")
  /\ CASE op.name = "kbc" ->
            IF Spawns(Env, LiveCommand) THEN LiveWait("kbc")
            ELSE LiveDone(kbc(Env, LiveCommand, NoArgs, NoOutcome).result, TheDisk)
       [] op.name = "link_branch" ->
            IF Creates(Env, TheDisk, None) THEN LiveWait("create")
            ELSE \E done \in {link_branch(Env, TheDisk, None, NoCreate)} :
                    LiveDone(done.result, done.disk)
       [] op.name = "unlink_branch" ->
            \E done \in {unlink_branch(Env, TheDisk)} : LiveDone(done.result, done.disk)
       [] op.name = "get_mapping" -> LiveDone(get_mapping_tool(Env), TheDisk)
       [] OTHER -> LiveDone(list_mappings(Env), TheDisk)

\* cli_proxy.py:119-126: the external tool exits, or could not be started
KbcExits ==
  /\ LiveAt({"kbc"}, "kbc")
  /\ \E outcome \in { o \in ProcOutcomes : o.kind # "timeout" } :
       LiveDone(kbc(Env, LiveCommand, NoArgs, outcome).result, TheDisk)

\* cli_proxy.py:125: timeout=300 expires, subprocess.run raises TimeoutExpired
KbcTimeout ==
  /\ LiveAt({"kbc"}, "kbc")
  /\ \E outcome \in { o \in ProcOutcomes : o.kind = "timeout" } :
       LiveDone(kbc(Env, LiveCommand, NoArgs, outcome).result, TheDisk)

\* branch_mapping.py:90-95, subprocess.run without timeout: kbc remote create
\* branch exits, or could not be started
CreateExits ==
  /\ LiveAt({"link_branch"}, "create")
  /\ \E outcome \in CreateOutcomes :
       \E done \in {link_branch(Env, TheDisk, None, outcome)} :
          LiveDone(done.result, done.disk)

\* the result goes back to the caller
ReturnLive ==
  /\ op # Idle /\ op.pc = "done"
  /\ op' = Idle
  /\ res' = Idle
  /\ UNCHANGED envVars

NextLive ==
  \/ LiveBegin
  \/ GitExits
  \/ KbcExits
  \/ KbcTimeout
  \/ CreateExits
  \/ ReturnLive
  \/ SwitchBranch

SpecLive ==
  /\ InitLive
  /\ [][NextLive]_vars
  /\ WF_vars(KbcTimeout)
  /\ WF_vars(ReturnLive)

(***************************************************************************)
(* Termination of the tools, under SpecLive.                               *)
(***************************************************************************)
\* a tool call is under way
Called == op # Idle /\ op.pc # "done"

\* the tool call has its result
HasResult == op # Idle /\ op.pc = "done"

\* C30: every call of kbc, link_branch, unlink_branch, get_mapping and
\* list_mappings comes to a result, whatever the subprocesses it waits for
\* do, a subprocess that never exits included.
C30_EveryToolCallReturns == Called ~> HasResult

====
